---- MODULE Spec2Model ----
(***************************************************************************)
(* Model of atlas_mpl_style: the histogram aggregation (plot_backgrounds), *)
(* the ratio panel (plot_ratio) and the legend bookkeeping the plotting    *)
(* routines keep on an axes.                                               *)
(*                                                                         *)
(* Numbers.  Bin contents are integers.  Uncertainties are reals of the    *)
(* form sqrt(n), n a natural number: Flt(k) is the integer k, a record     *)
(* tagged "root" is the irrational sqrt(v), NaN is not-a-number.  On this  *)
(* domain square, sum of squares and square root are exact.                *)
(***************************************************************************)
EXTENDS Integers, Sequences, FiniteSets, TLC

VARIABLES
    axes,    \* axes id -> what was drawn on it and its _ampllegend bookkeeping
    cur,     \* the axes matplotlib.pyplot.gca() returns
    fperr,   \* numpy's global floating-point error configuration (np.geterr())
    op,      \* name of the routine that ran last ("none" before the first call)
    args,    \* the arguments of the call (drawn in Init or by the action)
    out,     \* how the call ended: returned value or raised exception
    locals,  \* values the call computed but did not return (NoneV if none)
    before,  \* axes, fperr and the arguments immediately before the last call
    prop_cycle,   \* matplotlib.rcParams["axes.prop_cycle"]: the colours of the cycle
    hist_colors   \* plot._hist_colors: an iterator over a colour cycle

vars == <<axes, cur, fperr, op, args, out, locals, before, prop_cycle, hist_colors>>

----------------------------------------------------------------------------
(* Bounds *)
MaxBins == 2      \* longest bin-content array
MaxBkgs == 2      \* longest list of Backgrounds
MaxCount == 1     \* largest bin content of a Background
MaxErr == 1       \* largest explicit per-bin uncertainty

----------------------------------------------------------------------------
(* Python values *)
NoneV == [tag |-> "None"]
Arr(s) == [tag |-> "array", v |-> s]
Str(s) == [tag |-> "str", v |-> s]
IsNone(x) == x.tag = "None"

Return(v) == [status |-> "return", value |-> v]
Raise(exc, msg, idx) == [status |-> "raise", exc |-> exc, msg |-> msg, idx |-> idx]
NoIndex == -1

(* Exact reals *)
Flt(k) == [t |-> "int", v |-> k]
NaN == [t |-> "nan"]
Root(n) == IF \E k \in 0..n : k * k = n
           THEN Flt(CHOOSE k \in 0..n : k * k = n)
           ELSE [t |-> "root", v |-> n]

np_sqrt(x) == IF x.t = "int" /\ x.v >= 0 THEN Root(x.v) ELSE NaN
np_square(x) == CASE x.t = "int" -> Flt(x.v * x.v)
                  [] x.t = "root" -> Flt(x.v)
                  [] OTHER -> NaN
Add(x, y) == IF x.t = "int" /\ y.t = "int" THEN Flt(x.v + y.v) ELSE NaN
Sub(x, y) == IF x.t = "int" /\ y.t = "int" THEN Flt(x.v - y.v) ELSE NaN

Map1(F(_), a) == [i \in 1..Len(a) |-> F(a[i])]
Map2(F(_, _), a, b) == [i \in 1..Len(a) |-> F(a[i], b[i])]
zeros_like(a) == [i \in 1..Len(a) |-> Flt(0)]
IntArr(s) == [i \in 1..Len(s) |-> Flt(s[i])]

\* np.sum(a) != 0 for an array of non-negative reals and NaNs
SumNonZero(a) == \E i \in 1..Len(a) : a[i] # Flt(0)

\* n+1 bin edges 0, 1, ..., n
Edges(n) == [i \in 1..(n + 1) |-> i - 1]

----------------------------------------------------------------------------
(* Strings used as stat_errs selectors.  str.lower() and the substring     *)
(* test are tabulated over this vocabulary.                                *)
StatStrings == {"sqrt", "Poisson", "ignore", "bogus"}
lower(s) == IF s = "Poisson" THEN "poisson" ELSE s
Contains(s, sub) == CASE sub = "pois" -> s \in {"poisson", "Poisson"}
                      [] sub = "sqrt" -> s = "sqrt"
                      [] sub = "ignore" -> s = "ignore"
                      [] OTHER -> FALSE

(* A histogram object: caps is the set of PlottableHistogram attributes it *)
(* has, naxes = len(hist.axes), edges the bin edges of axis 0, values its  *)
(* contents, variances None or an array.                                   *)
HistObj(caps, naxes, values, variances) ==
    [tag |-> "hist", caps |-> caps, naxes |-> naxes,
     edges |-> Edges(Len(values)), values |-> values, variances |-> variances]
hasattr(x, name) == x.tag = "hist" /\ name \in x.caps

\* _bins(axis): the edges of an axis given as (low, high) pairs
_bins(h) == Arr(h.edges)

(* Background.__init__: a record with the slots of the class, or the       *)
(* exception the constructor raises.                                       *)
\* variant: an explicit stat_errs array is stored without the length check
BackgroundStat_Unchecked(hist, stat_errs) ==
    IF IsNone(stat_errs) THEN Return(zeros_like(hist))
    ELSE IF stat_errs.tag = "str" THEN
        LET s == lower(stat_errs.v) IN
        IF Contains(s, "pois") \/ Contains(s, "sqrt") THEN Return(Map1(np_sqrt, hist))
        ELSE IF Contains(s, "ignore") THEN Return(zeros_like(hist))
        ELSE Raise("TypeError", "Invalid stat_errs", NoIndex)
    ELSE Return(stat_errs.v)
BackgroundStat(hist, stat_errs) ==
    IF IsNone(stat_errs) THEN Return(zeros_like(hist))
    ELSE IF stat_errs.tag = "str" THEN
        LET s == lower(stat_errs.v) IN
        IF Contains(s, "pois") \/ Contains(s, "sqrt") THEN Return(Map1(np_sqrt, hist))
        ELSE IF Contains(s, "ignore") THEN Return(zeros_like(hist))
        ELSE Raise("TypeError", "Invalid stat_errs", NoIndex)
    ELSE IF Len(hist) # Len(stat_errs.v)
        THEN Raise("BinningMismatchError", "Stat errors may have incorrect binning", NoIndex)
        ELSE Return(stat_errs.v)

BackgroundInit(label, bins, hist, stat_errs, syst_errs) ==
    LET st == BackgroundStat(hist, stat_errs) IN
    IF st.status = "raise" THEN st
    ELSE IF ~IsNone(syst_errs) /\ Len(hist) # Len(syst_errs.v)
        THEN Raise("BinningMismatchError", "Syst errors have incorrect binning", NoIndex)
    ELSE Return([label |-> label, bins |-> bins, hist |-> hist,
                 stat_errs |-> st.value,
                 syst_errs |-> IF IsNone(syst_errs) THEN zeros_like(st.value)
                               ELSE syst_errs.v])

(* The constructor on an object without an axes attribute: the object is   *)
(* taken for an array.  It has no length and numpy has no square root for  *)
(* it; zeros_like makes a zero-dimensional array of it.                    *)
BackgroundOpaque(label, hist, stat_errs, syst_errs) ==
    LET s == IF stat_errs.tag = "str" THEN lower(stat_errs.v) ELSE "" IN
    IF stat_errs.tag = "str" /\ (Contains(s, "pois") \/ Contains(s, "sqrt"))
        THEN Raise("TypeError", "no callable sqrt method", NoIndex)
    ELSE IF stat_errs.tag = "str" /\ ~Contains(s, "ignore")
        THEN Raise("TypeError", "Invalid stat_errs", NoIndex)
    ELSE IF stat_errs.tag = "array" \/ ~IsNone(syst_errs)
        THEN Raise("TypeError", "object has no len()", NoIndex)
    ELSE Return([label |-> label, bins |-> NoneV, hist |-> hist,
                 stat_errs |-> << >>, syst_errs |-> << >>])

Background(label, hist, stat_errs, syst_errs) ==
    IF hasattr(hist, "axes") THEN
        IF ~hasattr(hist, "values") \/ ~hasattr(hist, "variances")
            THEN Raise("ViolatesPlottableHistogramError",
                       "hist violates PlottableHistogram protocol", NoIndex)
        ELSE IF hist.naxes # 1
            THEN Raise("DimensionError", "Only 1D histograms are supported here", NoIndex)
        ELSE BackgroundInit(label, _bins(hist), hist.values,
                            IF stat_errs.tag = "str" THEN stat_errs
                            ELSE IF IsNone(hist.variances) THEN NoneV
                            ELSE Arr(Map1(np_sqrt, hist.variances.v)),
                            syst_errs)
    ELSE IF hist.tag = "hist" THEN BackgroundOpaque(label, hist, stat_errs, syst_errs)
    ELSE BackgroundInit(label, NoneV, hist.v, stat_errs, syst_errs)

----------------------------------------------------------------------------
(* Axes.  artists is what has been drawn, in drawing order; the other      *)
(* fields are the AMPLLegend dataclass that decorate_axes attaches (dicts  *)
(* are kept as the sequence of their keys in insertion order, bands as the *)
(* sequence of (label, artist) registrations).                             *)
AxesIds == {"ax1", "ax2"}
stat_label == "Stat. Uncertainty"
syst_label == "Stat. $\\oplus$ Syst. Unc."

AMPLLegend == [has_stat |-> FALSE, has_syst |-> FALSE, fill_hists |-> << >>,
               line_hists |-> << >>, bands |-> << >>, data_hists |-> << >>]
\* the AMPLAxesInfo dataclass; its cbar is kept as the "colorbar" artist of the axes
AMPLAxesInfo == [main_ax |-> NoneV, low_ax |-> NoneV]
\* legend_ holds the labels and handles of the last ax.legend(handles, labels) call
\* attrs are the attributes the stats module sets on an axes (name -> value),
\* twin_of is the axes this one was made a twin of by matplotlib.pyplot.twiny
NewAxes == [decorated |-> FALSE, artists |-> << >>, xlim |-> NoneV, ylim |-> NoneV,
            legend |-> AMPLLegend, legend_ |-> NoneV, info |-> AMPLAxesInfo,
            xlabel |-> NoneV, labelbottom |-> TRUE, attrs |-> << >>, twin_of |-> NoneV]

Artist(kind, label) == [kind |-> kind, label |-> label]

decorate_axes(A, ax) == [A EXCEPT ![ax].decorated = TRUE]
gca(ax, current) == IF IsNone(ax) THEN current ELSE ax.v
AxRef(id) == [tag |-> "axes", v |-> id]

\* d[key] = value on a dict kept as its key sequence
DictSet(d, key) == IF \E i \in 1..Len(d) : d[i] = key THEN d ELSE Append(d, key)

(* plot_band: draws the band on ax (default: current axes) and registers   *)
(* it under its label.  nlow and nhigh are len(low) and len(high);         *)
(* fill_between raises ValueError when they do not match the binning.      *)
plot_band(A, current, bins, nlow, nhigh, label, ax) ==
    LET id == gca(ax, current)
        D == decorate_axes(A, id)
        a == Artist("band", label)
    IN  IF nlow # Len(bins) - 1 \/ nhigh # Len(bins) - 1
        THEN [status |-> "raise", axes |-> D]
        ELSE [status |-> "return",
              axes |-> [D EXCEPT ![id].artists = Append(@, a),
                                 ![id].legend.bands =
                                     IF IsNone(label) THEN @
                                     ELSE Append(@, [label |-> label.v, artist |-> a])]]

----------------------------------------------------------------------------
(* plot_backgrounds, lines 241-258: the accumulation loop and the square   *)
(* roots.  acc holds variances until the loop ends.                        *)
BkgList(l) == [tag |-> "list", v |-> l]

\* mutant: total_hist is overwritten by each Background instead of accumulated
AccStep_LastHist(acc, bkg, total_err) ==
    [stat |-> Map2(Add, acc.stat, Map1(np_square, bkg.stat_errs)),
     syst |-> IF IsNone(total_err)
              THEN Map2(Add, acc.syst, Map1(np_square, bkg.syst_errs))
              ELSE acc.syst,
     hist |-> bkg.hist]

AccStep(acc, bkg, total_err) ==
    [stat |-> Map2(Add, acc.stat, Map1(np_square, bkg.stat_errs)),
     syst |-> IF IsNone(total_err)
              THEN Map2(Add, acc.syst, Map1(np_square, bkg.syst_errs))
              ELSE acc.syst,
     hist |-> Map2(Add, acc.hist, bkg.hist)]

RECURSIVE AccLoop(_, _, _, _)
AccLoop(backgrounds, i, acc, total_err) ==
    IF i > Len(backgrounds) THEN Return(acc)
    ELSE IF Len(backgrounds[i].hist) # Len(acc.stat)
        THEN Raise("BinningMismatchError", "Invalid binning for background", i - 1)
        ELSE AccLoop(backgrounds, i + 1, AccStep(acc, backgrounds[i], total_err), total_err)

\* mutant: the total error leaves out the systematic variance
TotalErr_StatOnly(stat_var, syst_var) == Map1(np_sqrt, stat_var)

TotalErr(stat_var, syst_var) == Map1(np_sqrt, Map2(Add, stat_var, syst_var))
SystFromOverride(total_err, stat_var) == Map1(np_sqrt, Map2(Sub, total_err, stat_var))

Totals(acc, total_err) ==
    [total_hist |-> acc.hist,
     total_err |-> IF IsNone(total_err) THEN TotalErr(acc.stat, acc.syst) ELSE total_err.v,
     total_syst_err |-> IF IsNone(total_err) THEN Map1(np_sqrt, acc.syst)
                        ELSE SystFromOverride(total_err.v, acc.stat),
     total_stat_err |-> Map1(np_sqrt, acc.stat)]

accumulate(backgrounds, total_err) ==
    LET z == zeros_like(backgrounds[1].hist)
        r == AccLoop(backgrounds, 1, [stat |-> z, syst |-> z, hist |-> z], total_err)
    IN  IF r.status = "raise" THEN r ELSE Return(Totals(r.value, total_err))

(* plot_backgrounds, lines 260-302: the bands, the stacked histogram and   *)
(* the legend bookkeeping.  The stat band is drawn with ax=ax, the         *)
(* stat+syst band without an ax argument, i.e. on the current axes.        *)
RECURSIVE SeqFold(_, _, _)
SeqFold(F(_, _), base, s) ==
    IF s = << >> THEN base ELSE SeqFold(F, F(base, Head(s)), Tail(s))
Reverse(s) == [i \in 1..Len(s) |-> s[Len(s) + 1 - i]]
AppendHist(arts, b) == Append(arts, Artist("stepfilled", Str(b.label)))
SetFill(d, b) == DictSet(d, b.label)

draw_backgrounds(A, current, id, backgrounds, bins, t, empty_stat_legend) ==
    LET n == Len(t.total_hist)
        A1 == IF SumNonZero(t.total_stat_err)
              THEN plot_band([A EXCEPT ![id].legend.has_stat = TRUE], current, bins,
                             n, n, Str(stat_label), AxRef(id)).axes
              ELSE IF empty_stat_legend THEN [A EXCEPT ![id].legend.has_stat = TRUE]
              ELSE A
        A2 == IF SumNonZero(t.total_syst_err)
              THEN plot_band([A1 EXCEPT ![id].legend.has_syst = TRUE], current, bins,
                             n, n, Str(syst_label), NoneV).axes
              ELSE A1
    IN  [A2 EXCEPT ![id].artists = SeqFold(AppendHist, @, backgrounds),
                   ![id].legend.fill_hists = SeqFold(SetFill, @, Reverse(backgrounds))]

(* plot_backgrounds(backgrounds, bins, total_err=, empty_stat_legend=,     *)
(* ax=): the value returned or the exception raised, and the axes after.   *)
plot_backgrounds_body(A, current, backgrounds, bins0, a) ==
    LET id == gca(a.ax, current)
        D == decorate_axes(A, id)
    IN  IF Len(backgrounds.v) < 1 THEN [out |-> Return(NoneV), axes |-> D]
        ELSE IF backgrounds.tag # "list"
            THEN [out |-> Raise("AttributeError", "no attribute", NoIndex), axes |-> D]
        ELSE IF IsNone(bins0) /\ IsNone(backgrounds.v[1].bins)
            THEN [out |-> Raise("TypeError",
                     "bins is required if backgrounds were not constructed from PlottableHists",
                     NoIndex), axes |-> D]
        ELSE LET bins == IF IsNone(bins0) THEN backgrounds.v[1].bins ELSE bins0 IN
             IF Len(backgrounds.v[1].hist) # Len(bins.v) - 1
                THEN [out |-> Raise("BinningMismatchError", "Invalid binning supplied", NoIndex),
                      axes |-> D]
             ELSE IF ~IsNone(a.total_err) /\ Len(a.total_err.v) # Len(bins.v) - 1
                THEN [out |-> Raise("BinningMismatchError",
                                    "Total error may have incorrect binning", NoIndex),
                      axes |-> D]
             ELSE LET r == accumulate(backgrounds.v, a.total_err) IN
                  IF r.status = "raise" THEN [out |-> r, axes |-> D]
                  ELSE [out |-> Return([total_hist |-> r.value.total_hist,
                                        total_err |-> r.value.total_err]),
                        locals |-> r.value,
                        axes |-> draw_backgrounds(D, current, id, backgrounds.v, bins.v,
                                                  r.value, a.empty_stat_legend)]

\* isinstance(bins[0], Background); bins[0] raises IndexError on an empty sequence
plot_backgrounds(A, current, a) ==
    IF ~IsNone(a.bins) /\ Len(a.bins.v) = 0
        THEN [out |-> Raise("IndexError", "index out of range", NoIndex), axes |-> A]
    ELSE IF ~IsNone(a.bins) /\ a.bins.tag = "list"
        THEN plot_backgrounds_body(A, current, a.bins, a.backgrounds, a)
    ELSE plot_backgrounds_body(A, current, a.backgrounds, a.bins, a)

----------------------------------------------------------------------------
(* Ratios.  A quotient of two integers is an exact rational (n/d in lowest *)
(* terms, d > 0), or +inf, -inf, NaN when the divisor is 0, as numpy gives *)
(* with floating-point errors ignored; with errors raised the division     *)
(* raises FloatingPointError instead.                                      *)
RECURSIVE GCD(_, _)
GCD(a, b) == IF b = 0 THEN a ELSE GCD(b, a % b)
Abs(x) == IF x < 0 THEN -x ELSE x
Rat(n, d) == LET g == GCD(Abs(n), Abs(d))
                 sg == IF d < 0 THEN -1 ELSE 1
             IN  [t |-> "rat", n |-> sg * (n \div g), d |-> sg * (d \div g)]
PInf == [t |-> "inf", sign |-> 1]
NInf == [t |-> "inf", sign |-> -1]

np_divide(x, y) == IF x.t # "int" \/ y.t # "int" THEN NaN
                   ELSE IF y.v # 0 THEN Rat(x.v, y.v)
                   ELSE IF x.v = 0 THEN NaN
                   ELSE IF x.v > 0 THEN PInf ELSE NInf
RatMul(x, y) == Rat(x.n * y.n, x.d * y.d)
RatNeg(x) == Rat(-x.n, x.d)
OneMinus(x) == Rat(x.d - x.n, x.d)

\* ratio > limit and ratio < limit; every comparison with NaN is false
Greater(x, lim) == CASE x.t = "rat" -> x.n * lim.d > lim.n * x.d
                     [] x.t = "inf" -> x.sign = 1
                     [] OTHER -> FALSE
Less(x, lim) == CASE x.t = "rat" -> x.n * lim.d < lim.n * x.d
                  [] x.t = "inf" -> x.sign = -1
                  [] OTHER -> FALSE

(* numpy broadcasting of two 1-d arrays: the common length, or -1 when the *)
(* operands cannot be broadcast together (ValueError).                     *)
BLen(n, m) == IF n = m THEN n ELSE IF n = 1 THEN m ELSE IF m = 1 THEN n ELSE -1
At(a, i) == IF Len(a) = 1 THEN a[1] ELSE a[i]
Broadcast2(F(_, _), a, b) == [i \in 1..BLen(Len(a), Len(b)) |-> F(At(a, i), At(b, i))]
DivByZero(a, b) == \E i \in 1..BLen(Len(a), Len(b)) : At(b, i) = Flt(0)

(* utils.significance, per bin: sign * sqrt(2 * (n ln(..) - (b^2/s2)       *)
(* ln(..))).  The value is NaN when s2, b or n is 0 (inf * 0, 0 * inf),    *)
(* exactly 0 when n = b, and otherwise sign * m for a positive magnitude m *)
(* that is left open: mag is any member of SigMagnitudes.                  *)
SigMagnitudes == {Rat(1, 2), Rat(5, 1)}
\* mutant: the sign factor where(n >= b, 1, -1) is left out
significance_bin_Unsigned(n, de, b, be, mag) ==
    LET s2 == np_square(de).v + np_square(be).v IN
    IF s2 = 0 \/ b.v = 0 \/ n.v = 0 THEN NaN
    ELSE IF n.v = b.v THEN Rat(0, 1)
    ELSE mag

significance_bin(n, de, b, be, mag) ==
    LET s2 == np_square(de).v + np_square(be).v IN
    IF s2 = 0 \/ b.v = 0 \/ n.v = 0 THEN NaN
    ELSE IF n.v = b.v THEN Rat(0, 1)
    ELSE IF n.v >= b.v THEN mag ELSE RatNeg(mag)
SigLen(data, data_errs, bkg, bkg_errs) ==
    LET e == BLen(Len(data_errs), Len(bkg_errs))
        v == BLen(Len(data), Len(bkg))
    IN  IF e = -1 \/ v = -1 THEN -1 ELSE BLen(e, v)
significance(data, data_errs, bkg, bkg_errs, mags) ==
    [i \in 1..SigLen(data, data_errs, bkg, bkg_errs) |->
        significance_bin(At(data, i), At(data_errs, i), At(bkg, i), At(bkg_errs, i), mags[i])]

----------------------------------------------------------------------------
(* plot_ratio.  np.seterr sets all="ignore" at entry and restores olderr   *)
(* in the last statement; every raise in between leaves "ignore" in force. *)
\* mutant: the difference is divided by the data instead of the background
RatioDiff_OverData(data, bkg) == Broadcast2(np_divide, Broadcast2(Sub, data, bkg), data)

RatioDiff(data, bkg) == Broadcast2(np_divide, Broadcast2(Sub, data, bkg), bkg)
RatioRaw(data, bkg) == Broadcast2(np_divide, data, bkg)

DefaultMaxRatio(plottype) == CASE plottype = "diff" -> Rat(25, 100)
                               [] plottype = "raw" -> Rat(125, 100)
                               [] OTHER -> Rat(35, 10)
MinRatio(plottype, max_ratio) == IF plottype = "raw" THEN OneMinus(max_ratio)
                                 ELSE RatNeg(max_ratio)
TenPercent == Rat(11, 10)

OutOfRangeUp(ratio, max_ratio) ==
    [i \in 1..Len(ratio) |-> IF Greater(ratio[i], max_ratio) THEN max_ratio ELSE NaN]
OutOfRangeDown(ratio, min_ratio) ==
    [i \in 1..Len(ratio) |-> IF Less(ratio[i], min_ratio) THEN min_ratio ELSE NaN]
\* mutant: only the bins above the range are blanked
Blank_UpOnly(ratio, up, down) ==
    [i \in 1..Len(ratio) |-> IF up[i] # NaN THEN NaN ELSE ratio[i]]

\* ratio[~isnan(out_of_range_up)] = NaN, then the same for out_of_range_down
Blank(ratio, up, down) ==
    [i \in 1..Len(ratio) |-> IF up[i] # NaN \/ down[i] # NaN THEN NaN ELSE ratio[i]]

Line(kind, ydata) == [kind |-> kind, label |-> NoneV, ydata |-> ydata]
AddArtist(A, id, art) == [A EXCEPT ![id].artists = Append(@, art)]
RatioResult(o, A, fp, loc) == [out |-> o, axes |-> A, fperr |-> fp, locals |-> loc]
ValueError(msg) == Raise("ValueError", msg, NoIndex)

\* lines 560-591, once ratio and the limits are known and the band is drawn
plot_ratio_points(A, olderr, a, ratio, max_ratio, min_ratio) ==
    LET id == a.ratio_ax
        up == OutOfRangeUp(ratio, max_ratio)
        down == OutOfRangeDown(ratio, min_ratio)
        final == IF a.offscale_errs THEN ratio ELSE Blank(ratio, up, down)
        loc == [ratio |-> ratio, max_ratio |-> max_ratio, min_ratio |-> min_ratio,
                out_of_range_up |-> up, out_of_range_down |-> down, drawn |-> final]
        A1 == AddArtist(AddArtist(A, id, Line("caretup", up)), id, Line("caretdown", down))
        nerr == BLen(Len(a.data_errs), Len(a.bkg))
    IN  IF Len(a.bins) - 1 # Len(ratio)
            THEN RatioResult(ValueError("x and y must have same first dimension"),
                             A, "ignore", loc)
        ELSE IF a.plottype = "significances"
            THEN RatioResult(Return(NoneV),
                     SeqFold(LAMBDA B, y : AddArtist(B, id, Line("axhline", <<y>>)),
                             AddArtist(A1, id, Line("points", final)), <<1, -1, 2, -2>>),
                     olderr, loc)
        ELSE IF nerr = -1
            THEN RatioResult(ValueError("operands could not be broadcast together"),
                             A1, "ignore", loc)
        ELSE IF nerr # 1 /\ nerr # Len(ratio)
            THEN RatioResult(ValueError("yerr does not match y"), A1, "ignore", loc)
        ELSE RatioResult(Return(NoneV), AddArtist(A1, id, Line("errorbar", final)),
                         olderr, loc)

\* lines 540-558: the limits grow by 10%, the reference line, the y range, the band
plot_ratio_band(A, olderr, a, ratio, max0) ==
    LET id == a.ratio_ax
        max_ratio == RatMul(max0, TenPercent)
        min_ratio == RatMul(MinRatio(a.plottype, max0), TenPercent)
        A1 == [AddArtist(A, id, Line("axhline", <<IF a.plottype = "raw" THEN 1 ELSE 0>>))
                  EXCEPT ![id].ylim = <<min_ratio, max_ratio>>]
        nband == BLen(Len(a.bkg_errs), Len(a.bkg))
        loc == [ratio |-> ratio, max_ratio |-> max_ratio, min_ratio |-> min_ratio]
    IN  IF a.plottype = "significances"
            THEN plot_ratio_points(A1, olderr, a, ratio, max_ratio, min_ratio)
        ELSE IF nband = -1
            THEN RatioResult(ValueError("operands could not be broadcast together"),
                             A1, "ignore", loc)
        ELSE LET b == plot_band(A1, id, a.bins, nband, nband, NoneV, AxRef(id)) IN
             IF b.status = "raise"
                THEN RatioResult(ValueError("fill_between: shape mismatch"),
                                 b.axes, "ignore", loc)
                ELSE plot_ratio_points(b.axes, olderr, a, ratio, max_ratio, min_ratio)

(* plot_ratio(bins, data, data_errs, bkg, bkg_errs, ratio_ax, max_ratio,   *)
(* plottype, offscale_errs) with the error configuration fp in force at    *)
(* the call; mags are the open significance magnitudes.                    *)
plot_ratio(A, fp, a, mags) ==
    LET max0 == IF IsNone(a.max_ratio) THEN DefaultMaxRatio(a.plottype) ELSE a.max_ratio.v
        fp1 == "ignore"
    IN  IF a.plottype \in {"diff", "raw"} THEN
            IF BLen(Len(a.data), Len(a.bkg)) = -1
                THEN RatioResult(ValueError("operands could not be broadcast together"),
                                 A, fp1, NoneV)
            ELSE IF fp1 = "raise" /\ DivByZero(a.data, a.bkg)
                THEN RatioResult(Raise("FloatingPointError", "divide by zero", NoIndex),
                                 A, fp1, NoneV)
            ELSE plot_ratio_band(A, fp, a,
                     IF a.plottype = "diff" THEN RatioDiff(a.data, a.bkg)
                     ELSE RatioRaw(a.data, a.bkg), max0)
        ELSE IF a.plottype = "significances" THEN
            IF SigLen(a.data, a.data_errs, a.bkg, a.bkg_errs) = -1
                THEN RatioResult(ValueError("operands could not be broadcast together"),
                                 A, fp1, NoneV)
            ELSE plot_ratio_band(A, fp, a,
                     significance(a.data, a.data_errs, a.bkg, a.bkg_errs, mags), max0)
        ELSE RatioResult(Raise("TypeError", "Invalid plottype", NoIndex), A, fp1, NoneV)

----------------------------------------------------------------------------
(* The single-histogram routines.  Each returns the outcome of the call    *)
(* and the axes after it.  The arguments record a has the parameters of    *)
(* the Python function as fields.                                          *)
CallResult(o, A) == [out |-> o, axes |-> A]
BinningMismatchError(msg) == Raise("BinningMismatchError", msg, NoIndex)
IsStr(x) == x.tag = "str"
\* variant: every string is taken for the Poisson rule
pois_or_sqrt_Lenient(s) == s \in StatStrings
pois_or_sqrt(s) == Contains(lower(s), "pois") \/ Contains(lower(s), "sqrt")
AttachBand(A, id, label) ==
    [A EXCEPT ![id].legend.bands = Append(@, [label |-> label, artist |-> Artist("band", NoneV)])]

(* plot_signal, lines 339-407 *)
plot_signal_draw(D, current, id, a, have_stat, have_syst) ==
    LET n == Len(a.hist)
        A1 == [D EXCEPT ![id].artists = Append(@, Artist("step", Str(a.label))),
                        ![id].legend.line_hists = DictSet(@, a.label)]
        A2 == IF have_syst
              THEN plot_band([A1 EXCEPT ![id].legend.has_syst = TRUE], current, a.bins.v,
                             n, n, NoneV, AxRef(id)).axes
              ELSE A1
        A3 == IF have_stat
              THEN plot_band([A2 EXCEPT ![id].legend.has_stat = TRUE], current, a.bins.v,
                             n, n, NoneV, AxRef(id)).axes
              ELSE A2
        A4 == IF have_stat /\ a.attach_bands THEN AttachBand(A3, id, a.label) ELSE A3
    IN  IF have_stat /\ a.attach_bands /\ have_syst THEN AttachBand(A4, id, a.label) ELSE A4

plot_signal(A, current, a) ==
    LET id == gca(a.ax, current)
        D == decorate_axes(A, id)
    IN  IF Len(a.bins.v) - 1 # Len(a.hist)
            THEN CallResult(BinningMismatchError("Invalid binning"), D)
        ELSE IF IsStr(a.stat_errs) /\ ~pois_or_sqrt(a.stat_errs.v)
            THEN CallResult(Raise("TypeError", "Invalid stat_errs", NoIndex), D)
        ELSE IF ~IsNone(a.stat_errs) /\ ~IsStr(a.stat_errs)
                /\ Len(a.hist) # Len(a.stat_errs.v)
            THEN CallResult(BinningMismatchError("Stat errors may have incorrect binning"), D)
        ELSE IF ~IsNone(a.syst_errs) /\ Len(a.hist) # Len(a.syst_errs.v)
            THEN CallResult(BinningMismatchError("Incorrect binning for syst errors"), D)
        ELSE CallResult(Return(NoneV),
                        plot_signal_draw(D, current, id, a, ~IsNone(a.stat_errs),
                                         ~IsNone(a.syst_errs)))

(* plot_data, lines 439-478 *)
plot_data(A, current, a) ==
    LET id == gca(a.ax, current)
        D == decorate_axes(A, id)
    IN  IF Len(a.bins.v) - 1 # Len(a.hist)
            THEN CallResult(BinningMismatchError("Invalid binning"), D)
        ELSE IF IsStr(a.stat_errs) /\ ~pois_or_sqrt(a.stat_errs.v)
            THEN CallResult(Raise("TypeError", "Invalid stat_errs", NoIndex), D)
        ELSE IF ~IsNone(a.stat_errs) /\ ~IsStr(a.stat_errs)
                /\ Len(a.hist) # Len(a.stat_errs.v)
            THEN CallResult(BinningMismatchError("Stat errors may have incorrect binning"), D)
        ELSE LET stat_errs == IF IsNone(a.stat_errs) THEN zeros_like(a.hist)
                              ELSE IF IsStr(a.stat_errs) THEN Map1(np_sqrt, a.hist)
                              ELSE a.stat_errs.v
                 art == Artist(IF SumNonZero(stat_errs) THEN "errorbar" ELSE "scatter",
                               Str(a.label))
             IN  CallResult(Return([hist |-> a.hist, stat_errs |-> stat_errs]),
                            [D EXCEPT ![id].artists = Append(@, art),
                                      ![id].legend.data_hists = DictSet(@, a.label)])

(* plot_1d, lines 638-681.  The band is drawn without an ax argument, on   *)
(* the current axes; has_stat and the attachment are recorded on ax.       *)
plot_1d(A, current, a) ==
    LET id == gca(a.ax, current)
        D == decorate_axes(A, id)
        n == Len(a.hist)
    IN  IF Len(a.bins.v) - 1 # n
            THEN CallResult(BinningMismatchError("Invalid binning"), D)
        ELSE IF IsStr(a.stat_errs) /\ ~pois_or_sqrt(a.stat_errs.v)
            THEN CallResult(Raise("TypeError", "Invalid stat_errs", NoIndex), D)
        ELSE IF ~IsNone(a.stat_errs) /\ ~IsStr(a.stat_errs) /\ n # Len(a.stat_errs.v)
            THEN CallResult(BinningMismatchError("Stat errors may have incorrect binning"), D)
        ELSE LET A1 == [D EXCEPT ![id].artists = Append(@, Artist("step", Str(a.label))),
                                 ![id].legend.line_hists = DictSet(@, a.label)]
                 A2 == IF IsNone(a.stat_errs) THEN A1
                       ELSE plot_band([A1 EXCEPT ![id].legend.has_stat = TRUE], current,
                                      a.bins.v, n, n, NoneV, NoneV).axes
             IN  CallResult(Return(NoneV),
                            IF ~IsNone(a.stat_errs) /\ a.attach_bands
                            THEN AttachBand(A2, id, a.label) ELSE A2)

(* plot_2d, lines 712-728.  hist is known by its shape; the colorbar axes  *)
(* appended to ax is recorded as the colorbar artist of ax.                *)
Hist2d(nx, ny) == [shape |-> <<nx, ny>>]
plot_2d(A, current, a) ==
    IF Len(a.xbins.v) # a.hist.shape[1] + 1
        THEN CallResult(BinningMismatchError("xbins does not match 1st axis of hist"), A)
    ELSE IF Len(a.ybins.v) # a.hist.shape[2] + 1
        THEN CallResult(BinningMismatchError("ybins does not match 2nd axis of hist"), A)
    ELSE LET id == gca(a.ax, current)
             D == decorate_axes(A, id)
             xb == a.xbins.v
             yb == a.ybins.v
         IN  CallResult(Return([mesh |-> "QuadMesh", cbar |-> "Colorbar"]),
                        [D EXCEPT ![id].artists = @ \o <<Artist("mesh", NoneV),
                                                        Artist("colorbar", NoneV)>>,
                                  ![id].xlim = <<Rat(xb[1], 1), Rat(xb[Len(xb)], 1)>>,
                                  ![id].ylim = <<Rat(yb[1], 1), Rat(yb[Len(yb)], 1)>>])

(* plot_cutflow, lines 752-798: one bar container and, with text, one      *)
(* annotation per bar; the axes are resized only when ax was not passed.   *)
plot_cutflow(A, current, a) ==
    LET id == gca(a.ax, current)
        D == decorate_axes(A, id)
        n == Len(a.labels)
        notes == IF a.text THEN [i \in 1..n |-> Artist("annotate", NoneV)] ELSE << >>
        A1 == [D EXCEPT ![id].artists =
                   Append(@, Artist(IF a.horizontal THEN "barh" ELSE "bar", NoneV)) \o notes]
    IN  IF n # Len(a.hist)
            THEN CallResult(BinningMismatchError("Invalid binning"), D)
        ELSE IF ~IsNone(a.ax) THEN CallResult(Return(NoneV), A1)
        ELSE IF a.horizontal
            THEN CallResult(Return(NoneV),
                            [A1 EXCEPT ![id].ylim = <<Rat(-1, 2), Rat(2 * n + 5, 2)>>])
        ELSE CallResult(Return(NoneV),
                        [A1 EXCEPT ![id].xlim = <<Rat(-1, 2), Rat(2 * n - 1, 2)>>])

(* plot_limit, lines 839-905.  The LimitConfig it fills is a local that is *)
(* never stored on the axes.                                               *)
\* variant: only an array shorter than x is reported
Mismatches_Shorter(x, arr) == ~IsNone(arr) /\ Len(arr.v) < Len(x)
Mismatches(x, arr) == ~IsNone(arr) /\ Len(x) # Len(arr.v)
plot_limit_draw(D, id, a) ==
    LET two == IF IsNone(a.minus_two_sigma) THEN << >>
               ELSE <<Artist("fill_between", NoneV)>>
        one == IF IsNone(a.minus_one_sigma) THEN << >>
               ELSE <<Artist("fill_between", NoneV)>>
        exp == <<Artist("line", Str(a.expected_label))>>
        obs == IF IsNone(a.observed) THEN << >> ELSE <<Artist("line", a.observed_label)>>
    IN  [D EXCEPT ![id].artists = @ \o two \o one \o exp \o obs]

plot_limit(A, current, a) ==
    LET id == gca(a.ax, current)
        D == decorate_axes(A, id)
    IN  IF Len(a.x) # Len(a.expected)
            THEN CallResult(BinningMismatchError("expected does not match x"), D)
        ELSE IF Mismatches(a.x, a.minus_one_sigma)
            THEN CallResult(BinningMismatchError("minus_one_sigma does not match x"), D)
        ELSE IF Mismatches(a.x, a.plus_one_sigma)
            THEN CallResult(BinningMismatchError("plus_one_sigma does not match x"), D)
        ELSE IF Mismatches(a.x, a.minus_two_sigma)
            THEN CallResult(BinningMismatchError("minus_two_sigma does not match x"), D)
        ELSE IF Mismatches(a.x, a.plus_two_sigma)
            THEN CallResult(BinningMismatchError("plus_two_sigma does not match x"), D)
        ELSE IF Mismatches(a.x, a.observed)
            THEN CallResult(BinningMismatchError("observed does not match x"), D)
        ELSE IF IsNone(a.minus_one_sigma) # IsNone(a.plus_one_sigma)
            THEN CallResult(ValueError(
                "Either both minus_one_sigma and plus_one_sigma must be provided or neither"), D)
        ELSE IF IsNone(a.minus_two_sigma) # IsNone(a.plus_two_sigma)
            THEN CallResult(ValueError(
                "Either both minus_two_sigma and plus_two_sigma must be provided or neither"), D)
        ELSE IF IsNone(a.observed) # IsNone(a.observed_label)
            THEN CallResult(ValueError(
                "Either both observed and observed_label must be provided or neither"), D)
        ELSE CallResult(Return(NoneV), plot_limit_draw(D, id, a))

----------------------------------------------------------------------------
(* The uhi module: the same routines on histogram objects.  An object with *)
(* a labels field has a labelled axis 0, one with yedges has a second axis *)
(* with its own edges and two-dimensional values.                          *)
LabelHist(caps, naxes, labels, values) ==
    [tag |-> "hist", caps |-> caps, naxes |-> naxes, labels |-> labels,
     values |-> values, variances |-> NoneV]
Hist2dObj(caps, naxes, nx, ny) ==
    [tag |-> "hist", caps |-> caps, naxes |-> naxes, edges |-> Edges(nx),
     yedges |-> Edges(ny), values |-> Hist2d(nx, ny), variances |-> NoneV]
Labeled(h) == "labels" \in DOMAIN h

\* the test every uhi routine opens with, lines 53-62 and alike
Protocol(h, name, msg) ==
    IF ~hasattr(h, "axes") \/ ~hasattr(h, "values") \/ ~hasattr(h, "variances")
        THEN Raise("ViolatesPlottableHistogramError",
                   name \o " violates PlottableHistogram protocol", NoIndex)
    ELSE IF h.naxes # 1 THEN Raise("DimensionError", msg, NoIndex)
    ELSE Return(h)
OnlyOneD == "Only 1D histograms are supported here"
LabeledBinsError(msg) == Raise("LabeledBinsError", msg, NoIndex)

\* stat_errs as uhi.plot_data, plot_signal and plot_1d derive it
uhi_stat_errs(h, ignore_variances) ==
    IF ignore_variances THEN Arr(Map1(np_sqrt, h.values))
    ELSE IF IsNone(h.variances) THEN NoneV
    ELSE Arr(Map1(np_sqrt, h.variances.v))

uhi_plot_data(A, current, a) ==
    LET p == Protocol(a.hist, "hist", OnlyOneD) IN
    IF p.status = "raise" THEN CallResult(p, A)
    ELSE IF Labeled(a.hist)
        THEN CallResult(LabeledBinsError("Bins are labeled. Perhaps you may want plot_cutflow."), A)
    ELSE plot_data(A, current,
             [fn |-> "plot_data", label |-> a.label, bins |-> _bins(a.hist),
              hist |-> a.hist.values,
              stat_errs |-> uhi_stat_errs(a.hist, a.ignore_variances), ax |-> a.ax])

(* uhi.plot_signal: syst_errs is None, an array, or an object; an object   *)
(* is examined only when it has an axes attribute.  The routine has no     *)
(* return statement.                                                       *)
uhi_syst_errs(h, syst_errs) ==
    IF ~hasattr(syst_errs, "axes") THEN Return(syst_errs)
    ELSE IF ~hasattr(syst_errs, "values") \/ ~hasattr(syst_errs, "variances")
        THEN Raise("ViolatesPlottableHistogramError",
                   "syst_errs violates PlottableHistogram protocol", NoIndex)
    ELSE IF syst_errs.naxes # 1 THEN Raise("DimensionError", OnlyOneD, NoIndex)
    ELSE IF Len(syst_errs.values) # Len(h.values)
        THEN BinningMismatchError("Binning mismatch between syst_errs and hist")
    ELSE Return(Arr(syst_errs.values))

uhi_plot_signal(A, current, a) ==
    LET p == Protocol(a.hist, "hist", OnlyOneD) IN
    IF p.status = "raise" THEN CallResult(p, A)
    ELSE IF Labeled(a.hist)
        THEN CallResult(LabeledBinsError("Bins are labeled. Perhaps you may want plot_cutflow."), A)
    ELSE LET y == uhi_syst_errs(a.hist, a.syst_errs)
             call == [fn |-> "plot_signal", label |-> a.label, bins |-> _bins(a.hist),
                      hist |-> a.hist.values,
                      stat_errs |-> uhi_stat_errs(a.hist, a.ignore_variances),
                      syst_errs |-> NoneV, attach_bands |-> a.attach_bands, ax |-> a.ax]
         IN  IF y.status = "raise" THEN CallResult(y, A)
             ELSE IF y.value.tag = "hist" THEN
                 \* an object without axes reaches len(syst_errs) in plot_signal
                 LET r == plot_signal(A, current, call) IN
                 IF r.out.status = "raise" THEN r
                 ELSE CallResult(Raise("TypeError", "object has no len()", NoIndex),
                                 decorate_axes(A, gca(a.ax, current)))
             ELSE LET r == plot_signal(A, current, [call EXCEPT !.syst_errs = y.value])
                  IN  IF r.out.status = "raise" THEN r
                      ELSE CallResult(Return(NoneV), r.axes)

uhi_plot_1d(A, current, a) ==
    LET p == Protocol(a.hist, "hist", OnlyOneD) IN
    IF p.status = "raise" THEN CallResult(p, A)
    ELSE IF Labeled(a.hist)
        THEN CallResult(LabeledBinsError("Bins are labeled. Perhaps you may want plot_cutflow."), A)
    ELSE LET r == plot_1d(A, current,
                     [fn |-> "plot_1d", label |-> a.label, bins |-> _bins(a.hist),
                      hist |-> a.hist.values,
                      stat_errs |-> IF a.stat_err
                                    THEN uhi_stat_errs(a.hist, a.ignore_variances)
                                    ELSE NoneV,
                      attach_bands |-> a.attach_bands, ax |-> a.ax])
         IN  IF r.out.status = "raise" THEN r ELSE CallResult(Return(NoneV), r.axes)

uhi_plot_2d(A, current, a) ==
    LET h == a.hist IN
    IF ~hasattr(h, "axes") \/ ~hasattr(h, "values") \/ ~hasattr(h, "variances")
        THEN CallResult(Raise("ViolatesPlottableHistogramError",
                              "hist violates PlottableHistogram protocol", NoIndex), A)
    ELSE IF h.naxes # 2
        THEN CallResult(Raise("DimensionError", "Only 2D histograms are supported here",
                              NoIndex), A)
    ELSE plot_2d(A, current,
             [fn |-> "plot_2d", xbins |-> Arr(h.edges), ybins |-> Arr(h.yedges),
              hist |-> h.values, ax |-> a.ax])

uhi_plot_cutflow(A, current, a) ==
    LET p == Protocol(a.hist, "hist", "Cutflow should be 1D") IN
    IF p.status = "raise" THEN CallResult(p, A)
    ELSE IF ~Labeled(a.hist) THEN CallResult(LabeledBinsError("Bins are not labeled"), A)
    ELSE LET r == plot_cutflow(A, current,
                     [fn |-> "plot_cutflow", labels |-> a.hist.labels,
                      hist |-> a.hist.values, text |-> a.text,
                      horizontal |-> a.horizontal, ax |-> a.ax])
         IN  IF r.out.status = "raise" THEN r ELSE CallResult(Return(NoneV), r.axes)

(* uhi.plot_ratio.  total_bkg is a histogram object, a (bkg, bkg_errs)     *)
(* tuple, or anything else.  Absent data variances become sqrt(data);      *)
(* np.sqrt of absent total_bkg variances is a TypeError.  The values of a  *)
(* total_bkg with two axes are a two-dimensional array, which reaches      *)
(* plot.plot_ratio and there fails to broadcast against the data.          *)
Tuple2(x, y) == [tag |-> "tuple", v |-> <<x, y>>]
IsHistogram(x) == hasattr(x, "axes") /\ hasattr(x, "values") /\ hasattr(x, "variances")
RatioCall(a, data_errs, bkg, bkg_errs) ==
    [fn |-> "plot_ratio", bins |-> a.data.edges, data |-> a.data.values,
     data_errs |-> data_errs, bkg |-> bkg, bkg_errs |-> bkg_errs,
     ratio_ax |-> a.ratio_ax, max_ratio |-> a.max_ratio, plottype |-> a.plottype,
     offscale_errs |-> FALSE]
uhi_plot_ratio(A, fp, a, mags) ==
    LET p == Protocol(a.data, "data", OnlyOneD)
        tb == a.total_bkg
        data_errs == IF IsNone(a.data.variances) THEN Map1(np_sqrt, a.data.values)
                     ELSE Map1(np_sqrt, a.data.variances.v)
    IN  IF p.status = "raise" THEN RatioResult(p, A, fp, NoneV)
        ELSE IF Labeled(a.data)
            THEN RatioResult(LabeledBinsError(
                     "Bins are labeled. Perhaps you may want plot_cutflow."), A, fp, NoneV)
        ELSE IF IsHistogram(tb) THEN
            IF IsNone(tb.variances)
                THEN RatioResult(Raise("TypeError", "no callable sqrt method", NoIndex),
                                 A, fp, NoneV)
            ELSE IF tb.naxes # 1 THEN
                IF a.plottype \in {"diff", "raw", "significances"}
                    THEN RatioResult(ValueError("operands could not be broadcast together"),
                                     A, "ignore", NoneV)
                    ELSE RatioResult(Raise("TypeError", "Invalid plottype", NoIndex),
                                     A, "ignore", NoneV)
            ELSE plot_ratio(A, fp, RatioCall(a, data_errs, tb.values,
                                             Map1(np_sqrt, tb.variances.v)), mags)
        ELSE IF tb.tag = "tuple" /\ Len(tb.v) = 2
            THEN plot_ratio(A, fp, RatioCall(a, data_errs, tb.v[1], tb.v[2]), mags)
        ELSE RatioResult(Raise("TypeError",
                 "total_bkg should be a two element tuple of arrays, as returned by plot_backgrounds",
                               NoIndex), A, fp, NoneV)

----------------------------------------------------------------------------
(* Legends.  A legend is the sequence of entries handed to ax.legend: the  *)
(* label, the handle, and the bands joined to the handle in a tuple (none  *)
(* when the handle is passed alone).  The limits dict of AMPLLegend is not *)
(* kept: no routine stores into it (plot_limit fills a LimitConfig and     *)
(* drops it), so it is empty on every axes.                                *)
register_band(A, current, label, artist, ax) ==
    LET id == gca(ax, current) IN
    [decorate_axes(A, id) EXCEPT ![id].legend.bands =
                                     Append(@, [label |-> label, artist |-> artist])]

\* len(ax._ampllegend.limits) != 0 never holds
plot_type(A, id) == "hists"

Keys(d) == {d[i] : i \in 1..Len(d)}
\* matplotlib: the labelled children of the axes in drawing order, then its containers
get_legend_handles_labels(A, id) ==
    LET labelled(a) == ~IsNone(a.label)
        container(a) == a.kind = "errorbar"
    IN  SelectSeq(A[id].artists, LAMBDA a : labelled(a) /\ ~container(a))
            \o SelectSeq(A[id].artists, LAMBDA a : labelled(a) /\ container(a))

\* extras[label] = handle on an OrderedDict kept as its items in insertion order
OrderedSet(d, label, handle) ==
    IF \E i \in 1..Len(d) : d[i].label = label
    THEN [i \in 1..Len(d) |-> IF d[i].label = label
                              THEN [label |-> label, handle |-> handle] ELSE d[i]]
    ELSE Append(d, [label |-> label, handle |-> handle])
ampl_labels(al) ==
    Keys(al.fill_hists) \cup Keys(al.line_hists) \cup Keys(al.data_hists)
        \cup {stat_label, syst_label}
get_extras(A, id) ==
    SeqFold(LAMBDA d, h : IF h.label.v \in ampl_labels(A[id].legend) THEN d
                          ELSE OrderedSet(d, h.label.v, h),
            << >>, get_legend_handles_labels(A, id))

\* the characters of the labels that artists drawn directly with matplotlib carry
Chars(label) == CASE label = "fit" -> <<"f", "i", "t">>
                  [] label = "Z1" -> <<"Z", "1">>
                  [] label = "S" -> <<"S">>
\* the value a dict of AMPLLegend holds under key
Stored(dict, key) == [kind |-> dict, label |-> Str(key)]
Rectangle(look) == [kind |-> "Rectangle", label |-> Str(look)]
\* labels.append(label); handles.append(handle), or the tuple of handle and al.bands[label]
Entry(al, label, handle) ==
    [label |-> label, handle |-> handle,
     bands |-> [i \in 1..Len(SelectSeq(al.bands, LAMBDA b : b.label = label)) |->
                   SelectSeq(al.bands, LAMBDA b : b.label = label)[i].artist]]

\* labels.append(label); handles.append(handle)
Plain(label, handle) == [label |-> label, handle |-> handle, bands |-> << >>]

\* lines 149-168: the entries of the histograms the package has recorded
ManagedEntries(al) ==
    LET data == [i \in 1..Len(al.data_hists) |->
                    Plain(al.data_hists[i], Stored("data_hists", al.data_hists[i]))]
        fill == [i \in 1..Len(al.fill_hists) |->
                    Plain(al.fill_hists[i], Stored("fill_hists", al.fill_hists[i]))]
        stat == IF al.has_stat THEN <<Plain("Stat. Uncertainty", Rectangle("hatch"))>>
                ELSE << >>
        syst == IF al.has_syst
                THEN <<Plain(IF al.has_stat THEN "Total Uncertainty" ELSE "Uncertainty",
                             Rectangle("grey"))>>
                ELSE << >>
        line == [i \in 1..Len(al.line_hists) |->
                    Entry(al, al.line_hists[i], Stored("line_hists", al.line_hists[i]))]
    IN  data \o fill \o stat \o syst \o line

(* lines 170-177: `for label, handle in extras` iterates over the keys of  *)
(* the OrderedDict, so each label string is unpacked into two names: a     *)
(* label that is not two characters long raises ValueError, one that is    *)
(* gives its first character as label and its second as handle.            *)
UnpackError(label) ==
    Raise("ValueError",
          IF Len(Chars(label)) > 2 THEN "too many values to unpack (expected 2)"
          ELSE "not enough values to unpack", NoIndex)
ExtraEntries(al, extras) ==
    [i \in 1..Len(extras) |->
        Entry(al, Chars(extras[i].label)[1],
              [kind |-> "str", label |-> Str(Chars(extras[i].label)[2])])]

draw_hists_legend(A, id) ==
    LET al == A[id].legend
        extras == get_extras(A, id)
        bad == {i \in 1..Len(extras) : Len(Chars(extras[i].label)) # 2}
    IN  IF bad # {}
        THEN CallResult(UnpackError(extras[CHOOSE i \in bad : \A j \in bad : i <= j].label), A)
        ELSE CallResult(Return(NoneV),
                        [A EXCEPT ![id].legend_ = ManagedEntries(al) \o ExtraEntries(al, extras)])

(* draw_legend(ax=): the axes is not decorated here, so plot_type fails on *)
(* an axes that no routine of the package has touched.                     *)
draw_legend(A, current, a) ==
    LET id == gca(a.ax, current) IN
    IF ~A[id].decorated
        THEN CallResult(Raise("AttributeError", "no attribute '_ampllegend'", NoIndex), A)
    ELSE IF plot_type(A, id) = "hists" THEN draw_hists_legend(A, id)
    ELSE CallResult(Return(NoneV), A)

----------------------------------------------------------------------------
(* Ratio axes and axis labels.  ratio_axes makes a figure with a main axes *)
(* and, below it, one ratio axes (extra_axes omitted) or extra_axes of     *)
(* them, and makes the main axes current.                                  *)
MainId == "main"
RatioIds == <<"ratio1", "ratio2", "ratio3", "ratio4", "ratio5", "ratio6">>
\* lines 332 and 348: only the main axes records a low_ax
LowAxOf(id, main, lowest) == IF id = main THEN AxRef(lowest) ELSE NoneV

ratio_axes(A, extra_axes) ==
    LET k == IF IsNone(extra_axes) THEN 1 ELSE extra_axes.v
        ratios == [i \in 1..k |-> RatioIds[i]]
        new == {MainId} \cup {ratios[i] : i \in 1..k}
        made(id) ==
            IF id = MainId
            THEN [NewAxes EXCEPT !.decorated = TRUE, !.labelbottom = FALSE,
                                 !.info.low_ax = IF k = 0 THEN NoneV
                                                 ELSE LowAxOf(id, MainId, ratios[k])]
            ELSE [NewAxes EXCEPT !.decorated = TRUE, !.labelbottom = (id = ratios[k]),
                                 !.info.main_ax = AxRef(MainId),
                                 !.info.low_ax = LowAxOf(id, MainId, ratios[k])]
    IN  [out |-> Return([main_ax |-> MainId,
                         ratio_ax |-> IF IsNone(extra_axes) THEN AxRef(ratios[1])
                                      ELSE [tag |-> "list", v |-> ratios]]),
         axes |-> [id \in DOMAIN A \cup new |-> IF id \in new THEN made(id) ELSE A[id]],
         cur |-> MainId]

(* set_xlabel(label, ax=), lines 922-928 *)
set_xlabel(A, current, a) ==
    LET id == gca(a.ax, current)
        D == decorate_axes(A, id)
        target == IF IsNone(D[id].info.low_ax) THEN id ELSE D[id].info.low_ax.v
    IN  CallResult(Return(NoneV), [D EXCEPT ![target].xlabel = Str(a.label)])

----------------------------------------------------------------------------
(* The stats module: pull and impact plots.  The data frame has every      *)
(* column the routine's docstring asks for and at least one row; colours,  *)
(* z-order and face colour are not kept.  matplotlib.pyplot.twiny makes    *)
(* the twin it creates the current axes.                                   *)
TwinIds == <<"twin1", "twin2", "twin3", "twin4", "twin5", "twin6">>
setattrs(A, id, new) == [A EXCEPT ![id].attrs = new @@ @]
has(A, id, name) == name \in DOMAIN A[id].attrs
Part(kind, of) == [kind |-> kind, label |-> NoneV, of |-> of]
IncorrectAxesError(msg) == Raise("IncorrectAxesError", msg, NoIndex)

(* plot_pulls(data, ax=), lines 85-107 *)
plot_pulls(A, current, a) ==
    LET id == gca(a.ax, current)
        pulls == Part("errorbar", "pulls")
        drawn == <<pulls, Line("axvline", <<0>>), Line("axvline", <<-1>>),
                   Line("axvline", <<1>>)>>
        A1 == [A EXCEPT ![id].artists = @ \o drawn,
                        ![id].xlabel = Str("theta hat"),
                        ![id].xlim = <<Rat(-2, 1), Rat(2, 1)>>]
    IN  [out |-> Return([ax |-> AxRef(id), pull_plot |-> pulls]),
         axes |-> setattrs(A1, id, "_has_pulls" :> pulls)]

(* plot_impacts(data, draw_prefit=, ax=), lines 144-218.  The x range is   *)
(* 1.05 times the largest absolute impact of the columns that are drawn.   *)
plot_impacts(A, current, a) ==
    LET id == gca(a.ax, current)
        twin == TwinIds[Cardinality({i \in 1..Len(TwinIds) : TwinIds[i] \in DOMAIN A}) + 1]
        dn_post == Part("barh", "impact_postfit_down")
        up_post == Part("barh", "impact_postfit_up")
        dn_pre == Part("barh", "impact_prefit_down")
        up_pre == Part("barh", "impact_prefit_up")
        pre == IF a.draw_prefit
               THEN "_dn_impacts_pre" :> dn_pre @@ "_up_impacts_pre" :> up_pre
               ELSE << >>
        impact_axes ==
            [NewAxes EXCEPT
                !.twin_of = AxRef(id),
                !.artists = <<dn_post, up_post>>
                                \o (IF a.draw_prefit THEN <<dn_pre, up_pre>> ELSE << >>),
                !.xlim = [tag |-> "impact_limits", prefit |-> a.draw_prefit],
                !.xlabel = Str("mu hat - mu var"),
                !.attrs = "_up_color" :> Str(a.up_color) @@ "_down_color" :> Str(a.down_color)
                          @@ "_has_prefit" :> a.draw_prefit
                          @@ "_dn_impacts_post" :> dn_post @@ "_up_impacts_post" :> up_post
                          @@ pre @@ "_pull_axes" :> AxRef(id)]
        A1 == [x \in DOMAIN A \cup {twin} |-> IF x = twin THEN impact_axes ELSE A[x]]
    IN  [out |-> Return(AxRef(twin)),
         axes |-> setattrs(A1, id, "_impact_axes" :> AxRef(twin)),
         cur |-> twin]

\* lines 234-240: the axes the legend is made for, None when there is none
PullAxesOf(A, id) ==
    IF has(A, id, "_has_pulls") \/ has(A, id, "_impact_axes") THEN AxRef(id)
    ELSE IF has(A, id, "_pull_axes") THEN A[id].attrs["_pull_axes"]
    ELSE NoneV

Item(label, handle) == [label |-> label, handle |-> handle]
Spacer == Part("Line2D", "white")
\* lines 243-283: the handles and labels of a legend with impacts
ImpactItems(A, id, impact_axes) ==
    LET t == A[impact_axes].attrs
        pulls == IF has(A, id, "_has_pulls")
                 THEN <<Item("Pulls", A[id].attrs["_has_pulls"])>> ELSE << >>
        pre == IF t["_has_prefit"]
               THEN <<Item("Prefit Up", t["_up_impacts_pre"]),
                      Item("Prefit Down", t["_dn_impacts_pre"])>>
               ELSE << >>
        gap == IF has(A, id, "_has_pulls") THEN <<Item("", Spacer)>> ELSE << >>
        post == <<Item("Postfit Up", t["_up_impacts_post"]),
                  Item("Postfit Down", t["_dn_impacts_post"])>>
    IN  pulls \o pre \o gap \o post

(* draw_pull_impact_legend(ax=), lines 232-309.  With pulls alone the      *)
(* ErrorbarContainer itself is passed as the handles, so its first member, *)
(* the line of the points, is the handle of "Pulls".                       *)
draw_pull_impact_legend(A, current, a) ==
    LET given == gca(a.ax, current)
        ax == PullAxesOf(A, given)
    IN  IF IsNone(ax)
        THEN [out |-> IncorrectAxesError(
                  "The axes passed to draw_pull_impact_legend do not contain a pull or impact plot."),
              axes |-> A, locals |-> NoneV]
        ELSE IF has(A, ax.v, "_impact_axes")
        THEN LET impact_axes == A[ax.v].attrs["_impact_axes"].v IN
             [out |-> Return(NoneV),
              axes |-> [A EXCEPT ![impact_axes].legend_ = ImpactItems(A, ax.v, impact_axes)],
              locals |-> [ax |-> ax.v, legend_on |-> impact_axes]]
        ELSE [out |-> Return(NoneV),
              axes |-> [A EXCEPT ![ax.v].legend_ = <<Item("Pulls", Part("Line2D", "pulls"))>>],
              locals |-> [ax |-> ax.v, legend_on |-> ax.v]]

----------------------------------------------------------------------------
(* Colour cycles.  A colour is a string; an iterator over a cycle is the   *)
(* sequence of its colours and the number of colours already taken.        *)
MplDefault == <<"#1f77b4", "#ff7f0e", "#2ca02c", "#d62728", "#9467bd",
                "#8c564b", "#e377c2", "#7f7f7f", "#bcbd22", "#17becf">>
Cycle(colors) == [colors |-> colors, taken |-> 0]
\* next(it)["color"] and the iterator afterwards
NextColor(it) == it.colors[(it.taken % Len(it.colors)) + 1]
Advance(it) == [it EXCEPT !.taken = @ + 1]

(* Palette names, with str.upper() and str.lower() tabulated over them.    *)
PalTable == {<<"ATLAS", "ATLAS", "atlas">>, <<"atlas", "ATLAS", "atlas">>,
             <<"Petroff10", "PETROFF10", "petroff10">>, <<"petroff", "PETROFF", "petroff">>,
             <<"Paper", "PAPER", "paper">>, <<"oceanic", "OCEANIC", "oceanic">>,
             <<"MPL", "MPL", "mpl">>, <<"Tab", "TAB", "tab">>,
             <<"tableau", "TABLEAU", "tableau">>, <<"HDBS", "HDBS", "hdbs">>,
             <<"HH", "HH", "hh">>, <<"series", "SERIES", "series">>}
PalNames == {t[1] : t \in PalTable}
str_upper(s) == (CHOOSE t \in PalTable : t[1] = s)[2]
str_lower(s) == (CHOOSE t \in PalTable : t[1] = s)[3]
StartsWithPetroff(s) == s \in {"PETROFF", "PETROFF10"}

Petroff6 == <<"rgb(87,144,252)", "rgb(248,156,32)", "rgb(228,37,54)", "rgb(150,74,139)",
              "rgb(156,156,161)", "rgb(122,33,221)">>
Petroff8 == <<"rgb(24,69,251)", "rgb(255,94,2)", "rgb(201,31,22)", "rgb(200,73,169)",
              "rgb(173,173,125)", "rgb(134,200,221)", "rgb(87,141,255)",
              "rgb(101,99,100)">>
Petroff10 == <<"petroff:blue", "petroff:orange", "petroff:red", "petroff:gray",
               "petroff:purple", "petroff:brown", "petroff:orange2", "petroff:tan",
               "petroff:gray2", "petroff:lightBlue">>
PaperColors == <<"paper:green", "paper:red", "paper:blue", "paper:orange", "paper:purple",
                 "paper:yellow", "paper:lightBlue", "paper:olive">>
OceanicColors == <<"on:green", "on:red", "on:blue", "on:cyan", "on:orange", "on:pink",
                   "on:yellow">>
TabColors == <<"tab:blue", "tab:orange", "tab:green", "tab:red", "tab:purple", "tab:brown",
               "tab:pink", "tab:gray", "tab:olive", "tab:cyan">>
HdbsColors == <<"hdbs:starcommandblue", "hdbs:spacecadet", "hdbs:maroonX11",
                "hdbs:outrageousorange", "hdbs:pictorialcarmine">>
HhColors == <<"hh:darkblue", "hh:darkpink", "hh:darkyellow", "hh:medturquoise">>
SeriesColors == <<"series:cyan", "series:orange", "series:blue", "series:olive",
                  "series:purple", "series:green", "series:pink">>

\* the Petroff palette for n lines
Petroff(n) == IF n <= 6 THEN Petroff6 ELSE IF n <= 8 THEN Petroff8 ELSE Petroff10

(* set_color_cycle(pal, n): the outcome, rcParams["axes.prop_cycle"] and   *)
(* plot._hist_colors afterwards.  pal.upper() is evaluated before the test *)
(* pal is None is reached.                                                 *)
Palette(pal, n) ==
    IF str_upper(pal) = "ATLAS" \/ StartsWithPetroff(str_upper(pal)) THEN Petroff(n)
    ELSE IF str_lower(pal) = "paper" THEN PaperColors
    ELSE IF str_lower(pal) = "oceanic" THEN OceanicColors
    ELSE IF str_lower(pal) \in {"tab", "tableau", "mpl"} THEN TabColors
    ELSE IF str_lower(pal) = "hdbs" THEN HdbsColors
    ELSE IF str_lower(pal) = "hh" THEN HhColors
    ELSE SeriesColors
set_color_cycle(cycle, it, pal, n0) ==
    LET n == IF n0 < 2 THEN 2 ELSE n0 IN
    IF IsNone(pal)
        THEN [out |-> Raise("AttributeError", "'NoneType' object has no attribute 'upper'",
                            NoIndex),
              prop_cycle |-> cycle, hist_colors |-> it]
        ELSE [out |-> Return(NoneV), prop_cycle |-> Palette(pal.v, n),
              hist_colors |-> Cycle(Palette(pal.v, n))]

----------------------------------------------------------------------------
(* Inputs of the aggregation.  Every Background is one the constructor     *)
(* returns: built from a count array or from a histogram object, with      *)
(* Poisson or no statistical errors and a flat or no systematic error.     *)
MaxTot == 2       \* largest value in a total_err override

FlatArr(n, e) == [i \in 1..n |-> Flt(e)]
\* contents c, c+1, ... wrapping around after m
RampArr(n, c, m) == [i \in 1..n |-> Flt((c + i - 1) % (m + 1))]
CountArrays == UNION {[1..n -> {Flt(c) : c \in 0..MaxCount}] : n \in 1..MaxBins}
FullCaps == {"axes", "values", "variances"}
Labels == <<"A", "B", "C", "D">>
Kinds == {"array", "hist"}

HistArg(kind, values) == IF kind = "array" THEN Arr(values)
                         ELSE HistObj(FullCaps, 1, values, NoneV)
\* contents, stat_errs selector and flat syst error (0: syst_errs omitted)
Profiles == [c : 0..MaxCount, stat : {NoneV, Str("sqrt")}, syst : {0, MaxErr}]
PlainProfile == [c |-> 1, stat |-> NoneV, syst |-> 0]
\* the i-th Background of a list: Background(label, hist, stat_errs, syst_errs)
NewBackground(i, kind, n, p) ==
    Background(Labels[i], HistArg(kind, RampArr(n, p.c, MaxCount)), p.stat,
               IF p.syst = 0 THEN NoneV ELSE Arr(FlatArr(n, p.syst))).value

EdgeArrays == {Arr(<< >>)} \cup {Arr(Edges(n)) : n \in 1..MaxBins}
BinsArgs == {NoneV} \cup EdgeArrays

----------------------------------------------------------------------------
(* Specification SpecBkg: one call of plot_backgrounds on fresh axes, the  *)
(* arguments drawn from the bounded sets above.                            *)
np_geterr_default == "warn"
Snapshot == [axes |-> axes, fperr |-> fperr, args |-> args]
\* plot.py line 13: the iterator made at import, over matplotlib's own cycle
ColorInit == prop_cycle = MplDefault /\ hist_colors = Cycle(MplDefault)

BkgCall(backgrounds, bins, total_err) ==
    [fn |-> "plot_backgrounds", backgrounds |-> backgrounds, bins |-> bins,
     total_err |-> total_err, empty_stat_legend |-> FALSE, ax |-> NoneV]

(* Lists of Backgrounds with a common number of bins and free contents and *)
(* errors, the first and the remaining ones built from an array or from a  *)
(* histogram object; bins is omitted or matches, total_err likewise.       *)
IsValueCall(a) ==
    \E n \in 1..MaxBins, k \in 0..MaxBkgs, first \in Kinds, rest \in Kinds :
      \E ps \in [1..k -> Profiles], b \in {NoneV, Arr(Edges(n))},
         t \in {NoneV, Arr(FlatArr(n, MaxTot))} :
        a = BkgCall(BkgList([i \in 1..k |->
                        NewBackground(i, IF i = 1 THEN first ELSE rest, n, ps[i])]), b, t)

(* Lists of Backgrounds of any kind and number of bins, without errors,    *)
(* with any bins and total_err length, as plot_backgrounds(backgrounds,    *)
(* bins, ...) or plot_backgrounds(bins, backgrounds, ...).                 *)
IsShapeCall(a) ==
    \E k \in 0..MaxBkgs :
      \E sh \in [1..k -> Kinds \X (1..MaxBins)], b \in BinsArgs,
         t \in {NoneV} \cup {Arr(FlatArr(n, 1)) : n \in 1..MaxBins}, exchanged \in BOOLEAN :
        LET l == BkgList([i \in 1..k |-> NewBackground(i, sh[i][1], sh[i][2], PlainProfile)])
        IN  /\ exchanged => ~IsNone(b)
            /\ a = IF exchanged THEN BkgCall(b, l, t) ELSE BkgCall(l, b, t)

IsBkgCall(a) == IsValueCall(a) \/ IsShapeCall(a)

InitCommon ==
    /\ axes = [id \in AxesIds |-> NewAxes]
    /\ cur = "ax1"
    /\ fperr = np_geterr_default
    /\ op = "none"
    /\ out = NoneV
    /\ locals = NoneV
    /\ before = Snapshot
    /\ ColorInit

(* The arrays a call writes in place.  The accumulators of plot_backgrounds *)
(* (+= at lines 247-250) are made by np.zeros_like (lines 240-242) and     *)
(* share no storage with backgrounds[0].hist.                              *)
AccumulatorBuffer == "new"
StoreFirstHist(a, value) ==
    IF a.backgrounds.tag = "list" THEN [a EXCEPT !.backgrounds.v[1].hist = value]
    ELSE [a EXCEPT !.bins.v[1].hist = value]
\* the arguments of plot_backgrounds as the call leaves them
BackgroundsAfter(a, r) ==
    IF AccumulatorBuffer = "new" \/ "locals" \notin DOMAIN r THEN a
    ELSE StoreFirstHist(a, r.locals.total_hist)

PlotBackgrounds ==
    /\ op = "none"
    /\ args.fn = "plot_backgrounds"
    /\ LET r == plot_backgrounds(axes, cur, args) IN
        /\ out' = r.out
        /\ axes' = r.axes
        /\ locals' = IF "locals" \in DOMAIN r THEN r.locals ELSE NoneV
        /\ args' = BackgroundsAfter(args, r)
    /\ op' = "plot_backgrounds"
    /\ before' = Snapshot
    /\ UNCHANGED <<cur, fperr, prop_cycle, hist_colors>>

InitBkg == IsBkgCall(args) /\ InitCommon
NextBkg == PlotBackgrounds
SpecBkg == InitBkg /\ [][NextBkg]_vars

----------------------------------------------------------------------------
(* Properties of plot_backgrounds (checked under SpecBkg) *)

\* the square of an uncertainty, as an integer
SqOf(x) == IF x.t = "int" THEN x.v * x.v ELSE x.v
RECURSIVE SumOver(_, _)
SumOver(F(_), s) == IF s = << >> THEN 0 ELSE F(Head(s)) + SumOver(F, Tail(s))

Called == op = "plot_backgrounds"
ListFirst == args.backgrounds.tag = "list"
TheList == IF ListFirst THEN args.backgrounds.v ELSE args.bins.v
TheBins == IF ListFirst THEN args.bins ELSE args.backgrounds
\* the binning the call works with: the bins argument, else the first Background's
EffBins == IF IsNone(TheBins) /\ Len(TheList) > 0 THEN TheList[1].bins ELSE TheBins
SameBinning == /\ Len(TheList) > 0
               /\ ~IsNone(EffBins)
               /\ \A k \in 1..Len(TheList) : Len(TheList[k].hist) = Len(EffBins.v) - 1
NBins == Len(TheList[1].hist)

(* C1: for a non-empty list of Backgrounds that all have len(bins)-1 bins  *)
(* and no total_err override, the call returns (total_hist, total_err)     *)
(* with, per bin, total_hist the sum of the contents, total_stat_err and   *)
(* total_syst_err the quadrature sums of the stat and syst errors, and     *)
(* total_err = sqrt(total_stat_err^2 + total_syst_err^2); total_err is 0   *)
(* in every bin when every stat and syst error is 0.                       *)
C1_Quadrature ==
    (Called /\ SameBinning /\ IsNone(args.total_err)) =>
        /\ out.status = "return"
        /\ out.value.total_err = locals.total_err
        /\ \A i \in 1..NBins :
            LET HistAt(b) == b.hist[i].v
                StatSq(b) == SqOf(b.stat_errs[i])
                SystSq(b) == SqOf(b.syst_errs[i])
            IN  /\ out.value.total_hist[i] = Flt(SumOver(HistAt, TheList))
                /\ locals.total_stat_err[i] = Root(SumOver(StatSq, TheList))
                /\ locals.total_syst_err[i] = Root(SumOver(SystSq, TheList))
                /\ out.value.total_err[i] =
                       Root(SqOf(locals.total_stat_err[i]) + SqOf(locals.total_syst_err[i]))
                /\ (SumOver(StatSq, TheList) = 0 /\ SumOver(SystSq, TheList) = 0)
                       => out.value.total_err[i] = Flt(0)

\* two Backgrounds whose stat errors and syst errors combine to irrational totals
C1_Witness ==
    /\ Called /\ SameBinning /\ IsNone(args.total_err)
    /\ Len(TheList) = 2
    /\ out.status = "return"
    /\ locals.total_stat_err[1] = Root(2)
    /\ locals.total_syst_err[1] = Root(2)
    /\ out.value.total_err[1] = Flt(2)

SqrtOfInt(n) == IF n < 0 THEN NaN ELSE Root(n)

(* C2: with a total_err override the returned total error is the override  *)
(* unchanged and, per bin, total_syst_err = sqrt(override^2 -              *)
(* total_stat_err^2) with total_stat_err the quadrature sum of the stat    *)
(* errors.                                                                 *)
C2_OverrideBackDerived ==
    (Called /\ SameBinning /\ ~IsNone(args.total_err)
            /\ Len(args.total_err.v) = Len(EffBins.v) - 1) =>
        /\ out.status = "return"
        /\ out.value.total_err = args.total_err.v
        /\ \A i \in 1..NBins :
            LET StatSq(b) == SqOf(b.stat_errs[i]) IN
            /\ locals.total_stat_err[i] = Root(SumOver(StatSq, TheList))
            /\ locals.total_syst_err[i] =
                   SqrtOfInt(SqOf(args.total_err.v[i]) - SumOver(StatSq, TheList))

Perms(n) == {p \in [1..n -> 1..n] : \A i, j \in 1..n : p[i] = p[j] => i = j}
Permuted(l, p) == [i \in 1..Len(l) |-> l[p[i]]]
WithList(l) == IF ListFirst THEN [args EXCEPT !.backgrounds = BkgList(l)]
               ELSE [args EXCEPT !.bins = BkgList(l)]
\* the same call on the same axes with the list reordered
Reordered(p) == plot_backgrounds(before.axes, cur, WithList(Permuted(TheList, p)))
TotalsOf(r) == IF "locals" \in DOMAIN r THEN r.locals ELSE NoneV

(* C3 as stated: for every list of Backgrounds and every permutation of    *)
(* it, the call with the same bins and total_err yields the same numeric   *)
(* totals (contents, stat, syst, total error).                             *)
C3_AnyListAnyOrder ==
    Called => \A p \in Perms(Len(TheList)) : TotalsOf(Reordered(p)) = locals

(* C3 amended: the totals do not depend on the order of the list whenever  *)
(* bins is passed explicitly, and whenever the call returns in both        *)
(* orders; with bins omitted the binning is taken from the first           *)
(* Background, so the order decides whether the call returns at all.       *)
C3_OrderInvariant ==
    Called => \A p \in Perms(Len(TheList)) :
        (~IsNone(TheBins) \/ (out.status = "return" /\ Reordered(p).out.status = "return"))
            => TotalsOf(Reordered(p)) = locals

C3_Witness ==
    /\ Called /\ Len(TheList) = 2 /\ out.status = "return" /\ locals # NoneV
    /\ TheList[1].hist # TheList[2].hist
    /\ TheList[1].stat_errs # TheList[2].stat_errs
    /\ TheList[1].syst_errs # TheList[2].syst_errs
    /\ IsNone(TheList[1].bins) /\ ~IsNone(TheList[2].bins)

(* C4: whenever some Background's number of bins differs from len(bins)-1  *)
(* the call raises BinningMismatchError and the error names the index of   *)
(* an offending Background, index 0 included.                              *)
Offending == {k \in 1..Len(TheList) : Len(TheList[k].hist) # Len(TheBins.v) - 1}
C4_MismatchNamesIndex ==
    (Called /\ ~IsNone(TheBins) /\ Len(TheBins.v) > 0 /\ Offending # {}) =>
        /\ out.status = "raise"
        /\ out.exc = "BinningMismatchError"
        /\ out.idx + 1 \in Offending

(* C5: with zero Backgrounds the call returns None and draws nothing,      *)
(* whatever bins, total_err and argument order.                            *)
C5_EmptyReturnsNone ==
    (Called /\ Len(TheList) = 0 /\ (IsNone(TheBins) \/ Len(TheBins.v) > 0)) =>
        /\ out = Return(NoneV)
        /\ \A id \in AxesIds : axes[id].artists = before.axes[id].artists

----------------------------------------------------------------------------
(* Specification SpecRatio: one call of plot_ratio on fresh axes, under a  *)
(* caller-chosen floating-point error configuration.                       *)
MaxRatioBins == 2   \* longest array passed to plot_ratio
MaxData == 2        \* largest bin content passed to plot_ratio

\* flat and ramp-shaped contents; errors that are all zero or all MaxErr
DataArrays == {FlatArr(n, c) : n \in 1..MaxRatioBins, c \in 0..MaxData}
                  \cup {RampArr(n, c, MaxData) : n \in 1..MaxRatioBins, c \in 0..MaxData}
ErrArrays == {FlatArr(n, e) : n \in 1..MaxRatioBins, e \in {0, MaxErr}}
PlotTypes == {"diff", "raw", "significances", "bogus"}
MaxRatioArgs == {NoneV, [tag |-> "num", v |-> Rat(19, 10)]}
ErrConfigs == {"warn", "raise"}

BkgArrays == DataArrays

IsRatioCall(a) ==
    \E d \in DataArrays, de \in ErrArrays, b \in BkgArrays, be \in ErrArrays,
       n \in 1..MaxRatioBins, m \in MaxRatioArgs, pt \in PlotTypes, off \in BOOLEAN :
        a = [fn |-> "plot_ratio", bins |-> Edges(n), data |-> d, data_errs |-> de,
             bkg |-> b, bkg_errs |-> be, ratio_ax |-> "ax2", max_ratio |-> m,
             plottype |-> pt, offscale_errs |-> off]

\* the open magnitudes: one choice per bin whose significance is neither NaN nor 0
IsOpenBin(a, i) ==
    /\ a.plottype = "significances"
    /\ SigLen(a.data, a.data_errs, a.bkg, a.bkg_errs) >= i
    /\ significance_bin(At(a.data, i), At(a.data_errs, i), At(a.bkg, i), At(a.bkg_errs, i),
                        Rat(1, 2)) \in {Rat(1, 2), Rat(-1, 2)}
MagChoices(a) ==
    {m \in [1..MaxRatioBins -> SigMagnitudes] :
        \A i \in 1..MaxRatioBins : IsOpenBin(a, i) \/ m[i] = Rat(1, 2)}

(* ratio[...] = NaN (lines 575-578) writes into the array that holds the   *)
(* quotient, which the arithmetic of lines 524-534 allocates: the buffer   *)
(* is an argument's name when the array shares that argument's storage.    *)
RatioBuffer_Data == "data"
RatioBuffer == "new"
\* the arguments of plot_ratio as the call leaves them
RatioArgsAfter(a, loc) ==
    IF RatioBuffer \in DOMAIN a /\ loc # NoneV
        THEN [a EXCEPT ![RatioBuffer] = IF "drawn" \in DOMAIN loc THEN loc.drawn ELSE loc.ratio]
        ELSE a

PlotRatio ==
    /\ op = "none"
    /\ args.fn = "plot_ratio"
    /\ \E mags \in MagChoices(args) :
        LET r == plot_ratio(axes, fperr, args, mags) IN
        /\ out' = r.out
        /\ axes' = r.axes
        /\ fperr' = r.fperr
        /\ locals' = r.locals
        /\ args' = RatioArgsAfter(args, r.locals)
    /\ op' = "plot_ratio"
    /\ before' = Snapshot
    /\ UNCHANGED <<cur, prop_cycle, hist_colors>>

InitRatio ==
    /\ axes = [id \in AxesIds |-> NewAxes]
    /\ cur = "ax1"
    /\ fperr \in ErrConfigs
    /\ op = "none"
    /\ out = NoneV
    /\ locals = NoneV
    /\ IsRatioCall(args)
    /\ before = Snapshot
    /\ ColorInit
NextRatio == PlotRatio
SpecRatio == InitRatio /\ [][NextRatio]_vars

----------------------------------------------------------------------------
(* Properties of plot_ratio (checked under SpecRatio) *)
RatioCalled == op = "plot_ratio"
HasRatio == RatioCalled /\ locals # NoneV
\* x is the exact quotient num / den (den # 0)
IsQuotient(x, num, den) == x.t = "rat" /\ x.n * den = num * x.d
AllZero(a) == \A i \in 1..Len(a) : a[i] = Flt(0)

(* C7: per bin the ratio is (data - bkg) / bkg in mode "diff" and          *)
(* data / bkg in mode "raw"; for a histogram compared with itself (same    *)
(* contents, zero errors) the raw ratio is exactly 1 and the difference    *)
(* exactly 0 in every bin with nonzero content, and the raw ratio is NaN   *)
(* in every bin with zero content.                                         *)
C7_RatioFormulas ==
    (RatioCalled /\ args.plottype \in {"diff", "raw"} /\ Len(args.data) = Len(args.bkg)) =>
        /\ locals # NoneV
        /\ Len(locals.ratio) = Len(args.data)
        /\ \A i \in 1..Len(args.data) :
            LET d == args.data[i].v
                b == args.bkg[i].v
                r == locals.ratio[i]
            IN  /\ (b # 0 /\ args.plottype = "diff") => IsQuotient(r, d - b, b)
                /\ (b # 0 /\ args.plottype = "raw") => IsQuotient(r, d, b)
                /\ b = 0 => r.t # "rat"
                /\ (args.data = args.bkg /\ AllZero(args.data_errs) /\ AllZero(args.bkg_errs)) =>
                    /\ (d # 0 /\ args.plottype = "raw") => r = Rat(1, 1)
                    /\ (d # 0 /\ args.plottype = "diff") => r = Rat(0, 1)
                    /\ (d = 0 /\ args.plottype = "raw") => r = NaN

\* a histogram with an empty and a filled bin compared with itself
C7_Witness ==
    /\ RatioCalled /\ args.plottype = "raw" /\ out.status = "return"
    /\ args.data = args.bkg /\ AllZero(args.data_errs) /\ AllZero(args.bkg_errs)
    /\ args.data = <<Flt(0), Flt(1)>>
    /\ locals.ratio = <<NaN, Rat(1, 1)>>

(* C8: on every exit path of plot_ratio, return or raise, the global numpy *)
(* floating-point error configuration equals what it was before the call.  *)
C8_ErrStateRestored == RatioCalled => fperr = before.fperr

(* C9: plot_ratio raises BinningMismatchError, before computing any ratio, *)
(* whenever data, data_errs, bkg, bkg_errs and bins (one longer) do not    *)
(* share the same binning, for every plottype.                             *)
RatioSameBinning ==
    /\ Len(args.data) = Len(args.bkg)
    /\ Len(args.data_errs) = Len(args.data)
    /\ Len(args.bkg_errs) = Len(args.bkg)
    /\ Len(args.bins) = Len(args.data) + 1
C9_RatioMismatchRaises ==
    (RatioCalled /\ ~RatioSameBinning) =>
        /\ out.status = "raise"
        /\ out.exc = "BinningMismatchError"
        /\ locals = NoneV

Markers(kind) == {k \in 1..Len(axes[args.ratio_ax].artists) :
                     axes[args.ratio_ax].artists[k].kind = kind}
Points == {k \in 1..Len(axes[args.ratio_ax].artists) :
              axes[args.ratio_ax].artists[k].kind \in {"errorbar", "points"}}
Above(x, lim) == (x.t = "rat" /\ x.n * lim.d > lim.n * x.d) \/ x = PInf
Below(x, lim) == (x.t = "rat" /\ x.n * lim.d < lim.n * x.d) \/ x = NInf
\* the maximum magnitude: max_ratio as passed or its default
MaxMagnitude == IF IsNone(args.max_ratio) THEN DefaultMaxRatio(args.plottype)
                ELSE args.max_ratio.v
LowerLimit == IF args.plottype = "raw" THEN OneMinus(MaxMagnitude) ELSE RatNeg(MaxMagnitude)
FlaggedUp(i) == \E k \in Markers("caretup") : axes[args.ratio_ax].artists[k].ydata[i] # NaN
FlaggedDown(i) == \E k \in Markers("caretdown") : axes[args.ratio_ax].artists[k].ydata[i] # NaN

(* C10 as stated: a bin beyond the maximum magnitude gets an up or down    *)
(* marker, a bin within range gets none, and with offscale_errs=False the  *)
(* computed ratio value of a flagged bin is not replaced.                  *)
C10_FlaggedNotReplaced ==
    (RatioCalled /\ out.status = "return") =>
        \A i \in 1..Len(locals.ratio) :
            /\ FlaggedUp(i) <=> Above(locals.ratio[i], MaxMagnitude)
            /\ FlaggedDown(i) <=> Below(locals.ratio[i], LowerLimit)
            /\ ~args.offscale_errs =>
                   \A k \in Points : axes[args.ratio_ax].artists[k].ydata[i] = locals.ratio[i]

(* C10 amended: the limits are those of the y range the call sets (the     *)
(* maximum magnitude and its lower counterpart, each times 1.1); a bin     *)
(* above the upper one gets an up marker, a bin below the lower one a down *)
(* marker, a bin within the range (or NaN) none; with offscale_errs=False  *)
(* the ratio of a flagged bin is replaced by NaN before the points are     *)
(* drawn, with offscale_errs=True the points are the computed ratios; the  *)
(* ratio of a bin within range is never changed.                           *)
C10_FlaggedAndBlanked ==
    (RatioCalled /\ out.status = "return") =>
        LET lim == axes[args.ratio_ax].ylim IN
        /\ lim = <<RatMul(LowerLimit, Rat(11, 10)), RatMul(MaxMagnitude, Rat(11, 10))>>
        /\ Markers("caretup") # {} /\ Markers("caretdown") # {} /\ Points # {}
        /\ \A i \in 1..Len(locals.ratio) :
            /\ FlaggedUp(i) <=> Above(locals.ratio[i], lim[2])
            /\ FlaggedDown(i) <=> Below(locals.ratio[i], lim[1])
            /\ \A k \in Points :
                axes[args.ratio_ax].artists[k].ydata[i] =
                    IF ~args.offscale_errs /\ (FlaggedUp(i) \/ FlaggedDown(i))
                    THEN NaN ELSE locals.ratio[i]

\* one bin off scale below and one within range, drawn without off-scale points
C10_Witness ==
    /\ RatioCalled /\ out.status = "return" /\ ~args.offscale_errs
    /\ args.plottype = "diff"
    /\ Len(locals.ratio) = 2
    /\ FlaggedDown(1) /\ ~FlaggedUp(1)
    /\ ~FlaggedDown(2) /\ ~FlaggedUp(2) /\ locals.ratio[2] = Rat(0, 1)
    /\ locals.drawn = <<NaN, Rat(0, 1)>>

----------------------------------------------------------------------------
(* Specification Spec: one call of a histogram or limit routine, on axes   *)
(* that are fresh or already hold a data histogram, with the arguments     *)
(* drawn from bounded sets.                                                *)
StatArgs == {NoneV, Str("Poisson"), Str("bogus")}
                \cup {Arr(FlatArr(n, e)) : n \in 1..MaxBins, e \in 0..MaxErr}
SystArgs == {NoneV} \cup {Arr(FlatArr(n, e)) : n \in 1..MaxBins, e \in 1..MaxErr}
AxArgs == {NoneV, AxRef("ax2")}
LimitArrays == {FlatArr(n, 1) : n \in 1..MaxBins}
OptLimitArrays == {NoneV} \cup {Arr(x) : x \in LimitArrays}
CutLabels == {[i \in 1..n |-> "cut"] : n \in 0..MaxBins}

IsSignalCall(a) ==
    \E b \in EdgeArrays, h \in CountArrays, s \in StatArgs, y \in SystArgs,
       t \in BOOLEAN, x \in AxArgs :
        a = [fn |-> "plot_signal", label |-> "S", bins |-> b, hist |-> h, stat_errs |-> s,
             syst_errs |-> y, attach_bands |-> t, ax |-> x]
IsDataCall(a) ==
    \E b \in EdgeArrays, h \in CountArrays, s \in StatArgs, x \in AxArgs :
        a = [fn |-> "plot_data", label |-> "Data", bins |-> b, hist |-> h, stat_errs |-> s,
             ax |-> x]
Is1dCall(a) ==
    \E b \in EdgeArrays, h \in CountArrays, s \in StatArgs, t \in BOOLEAN, x \in AxArgs :
        a = [fn |-> "plot_1d", label |-> "H", bins |-> b, hist |-> h, stat_errs |-> s,
             attach_bands |-> t, ax |-> x]
Is2dCall(a) ==
    \E xb \in EdgeArrays, yb \in EdgeArrays, nx \in 1..MaxBins, ny \in 1..MaxBins,
       x \in AxArgs :
        a = [fn |-> "plot_2d", xbins |-> xb, ybins |-> yb, hist |-> Hist2d(nx, ny), ax |-> x]
IsCutflowCall(a) ==
    \E l \in CutLabels, h \in CountArrays, t \in BOOLEAN, z \in BOOLEAN, x \in AxArgs :
        a = [fn |-> "plot_cutflow", labels |-> l, hist |-> h, text |-> t,
             horizontal |-> z, ax |-> x]
IsLimitCall(a) ==
    \E xs \in LimitArrays, e \in LimitArrays, m1 \in OptLimitArrays, p1 \in OptLimitArrays,
       m2 \in OptLimitArrays, p2 \in OptLimitArrays, o \in OptLimitArrays,
       ol \in {NoneV, Str("Observed")}, x \in AxArgs :
        a = [fn |-> "plot_limit", expected_label |-> "Expected", x |-> xs, expected |-> e,
             minus_one_sigma |-> m1, plus_one_sigma |-> p1, minus_two_sigma |-> m2,
             plus_two_sigma |-> p2, observed_label |-> ol, observed |-> o, ax |-> x]

(* plot_backgrounds on Backgrounds that all are without errors or all have *)
(* Poisson statistical and flat systematic errors, with or without an ax.  *)
ErrProfile == [c |-> 1, stat |-> Str("sqrt"), syst |-> MaxErr]
IsPlainBkgCall(a) ==
    \E k \in 0..MaxBkgs :
      \E sh \in [1..k -> Kinds \X (1..MaxBins)], b \in BinsArgs,
         t \in {NoneV} \cup {Arr(FlatArr(n, 1)) : n \in 1..MaxBins},
         exchanged \in BOOLEAN, x \in AxArgs, p \in {PlainProfile, ErrProfile} :
        LET l == BkgList([i \in 1..k |-> NewBackground(i, sh[i][1], sh[i][2], p)])
        IN  /\ exchanged => ~IsNone(b)
            /\ a = [(IF exchanged THEN BkgCall(b, l, t) ELSE BkgCall(l, b, t))
                       EXCEPT !.ax = x]

(* Histogram objects: with all three attributes of the protocol or with   *)
(* one missing, with one axis or two, with variances absent, zero or equal *)
(* to the contents.                                                        *)
CapSets == {FullCaps} \cup {FullCaps \ {c} : c \in FullCaps}
HistValues == {RampArr(n, c, MaxCount) : n \in 1..MaxBins, c \in 0..MaxCount}
VarianceArgs(v) == {NoneV, Arr(zeros_like(v)), Arr(v)}
HistObjs == UNION {{HistObj(caps, k, v, w) : caps \in CapSets, k \in {1, 2},
                                             w \in VarianceArgs(v)} : v \in HistValues}
SystObjs == {HistObj(caps, k, FlatArr(n, MaxErr), NoneV) :
                caps \in CapSets, k \in {1, 2}, n \in 1..MaxBins}

IsBackgroundCall(a) ==
    \E h \in {Arr(v) : v \in CountArrays} \cup HistObjs,
       s \in StatArgs \cup {Str("ignore")}, y \in SystArgs, c \in {NoneV, Str("k")} :
        a = [fn |-> "Background", label |-> "A", hist |-> h, stat_errs |-> s,
             syst_errs |-> y, color |-> c]
IsUhiDataCall(a) ==
    \E h \in HistObjs \cup {Arr(FlatArr(1, 1)), LabelHist(FullCaps, 1, <<"cut">>, FlatArr(1, 1))},
       i \in BOOLEAN, x \in AxArgs :
        a = [fn |-> "uhi.plot_data", hist |-> h, ignore_variances |-> i, label |-> "Data",
             ax |-> x]
IsUhiSignalCall(a) ==
    \E h \in HistObjs, i \in BOOLEAN, y \in SystArgs \cup SystObjs, t \in BOOLEAN,
       x \in AxArgs :
        a = [fn |-> "uhi.plot_signal", hist |-> h, label |-> "S", ignore_variances |-> i,
             syst_errs |-> y, attach_bands |-> t, ax |-> x]
IsUhi1dCall(a) ==
    \E h \in HistObjs, i \in BOOLEAN, e \in BOOLEAN, t \in BOOLEAN, x \in AxArgs :
        a = [fn |-> "uhi.plot_1d", hist |-> h, label |-> "H", ignore_variances |-> i,
             stat_err |-> e, attach_bands |-> t, ax |-> x]
IsUhi2dCall(a) ==
    \E h \in {Hist2dObj(caps, k, nx, ny) : caps \in CapSets, k \in {1, 2},
                                            nx \in 1..MaxBins, ny \in 1..MaxBins},
       x \in AxArgs :
        a = [fn |-> "uhi.plot_2d", hist |-> h, ax |-> x]
IsUhiCutflowCall(a) ==
    \E h \in {LabelHist(caps, k, l, FlatArr(Len(l), 1)) :
                 caps \in CapSets, k \in {1, 2}, l \in CutLabels \ {<< >>}}
             \cup {HistObj(FullCaps, 1, FlatArr(1, 1), NoneV)},
       t \in BOOLEAN, z \in BOOLEAN, x \in AxArgs :
        a = [fn |-> "uhi.plot_cutflow", hist |-> h, text |-> t, horizontal |-> z, ax |-> x]

(* uhi.plot_ratio: total_bkg is a histogram object, the pair that          *)
(* plot_backgrounds returns, or a bare array.                              *)
TotalBkgArgs ==
    UNION {{HistObj(caps, k, FlatArr(n, 1), w) :
               caps \in CapSets, k \in {1, 2}, w \in {NoneV, Arr(FlatArr(n, 1))}}
           \cup {Tuple2(FlatArr(n, 1), FlatArr(n, MaxErr))} : n \in 1..MaxBins}
      \cup {Arr(FlatArr(1, 1))}
IsUhiRatioCall(a) ==
    \E d \in HistObjs, t \in TotalBkgArgs, pt \in PlotTypes :
        a = [fn |-> "uhi.plot_ratio", data |-> d, total_bkg |-> t, ratio_ax |-> "ax2",
             max_ratio |-> NoneV, plottype |-> pt]
\* plot_ratio on equally binned arrays
IsPlainRatioCall(a) ==
    \E n \in 1..MaxBins, c \in 0..MaxCount, e \in {0, MaxErr}, pt \in PlotTypes,
       off \in BOOLEAN :
        a = [fn |-> "plot_ratio", bins |-> Edges(n), data |-> RampArr(n, c, MaxCount),
             data_errs |-> FlatArr(n, e), bkg |-> FlatArr(n, 1), bkg_errs |-> FlatArr(n, e),
             ratio_ax |-> "ax2", max_ratio |-> NoneV, plottype |-> pt,
             offscale_errs |-> off]

\* an axes on which plot_data has drawn "Data"
UsedAxes ==
    plot_data([id \in AxesIds |-> NewAxes], "ax1",
              [fn |-> "plot_data", label |-> "Data", bins |-> Arr(Edges(1)),
               hist |-> FlatArr(1, 1), stat_errs |-> NoneV, ax |-> NoneV]).axes["ax1"]

Init ==
    /\ axes \in {[id \in AxesIds |-> NewAxes], [id \in AxesIds |-> UsedAxes]}
    /\ cur \in AxesIds
    /\ fperr = np_geterr_default
    /\ op = "none"
    /\ out = NoneV
    /\ locals = NoneV
    /\ \/ IsSignalCall(args) \/ IsDataCall(args) \/ Is1dCall(args) \/ Is2dCall(args)
       \/ IsCutflowCall(args) \/ IsLimitCall(args) \/ IsPlainBkgCall(args)
       \/ IsBackgroundCall(args) \/ IsUhiDataCall(args) \/ IsUhiSignalCall(args)
       \/ IsUhi1dCall(args) \/ IsUhi2dCall(args) \/ IsUhiCutflowCall(args)
       \/ IsUhiRatioCall(args) \/ IsPlainRatioCall(args)
    /\ before = Snapshot
    /\ ColorInit

Apply(fn, r) ==
    /\ op = "none"
    /\ args.fn = fn
    /\ out' = r.out
    /\ axes' = r.axes
    /\ locals' = NoneV
    /\ op' = fn
    /\ before' = Snapshot
    /\ UNCHANGED <<cur, fperr, args, prop_cycle, hist_colors>>

PlotSignal == args.fn = "plot_signal" /\ Apply("plot_signal", plot_signal(axes, cur, args))
PlotData == args.fn = "plot_data" /\ Apply("plot_data", plot_data(axes, cur, args))
Plot1d == args.fn = "plot_1d" /\ Apply("plot_1d", plot_1d(axes, cur, args))
Plot2d == args.fn = "plot_2d" /\ Apply("plot_2d", plot_2d(axes, cur, args))
PlotCutflow == args.fn = "plot_cutflow" /\ Apply("plot_cutflow", plot_cutflow(axes, cur, args))
PlotLimit == args.fn = "plot_limit" /\ Apply("plot_limit", plot_limit(axes, cur, args))

UhiPlotData == Apply("uhi.plot_data", uhi_plot_data(axes, cur, args))
UhiPlotSignal == Apply("uhi.plot_signal", uhi_plot_signal(axes, cur, args))
UhiPlot1d == Apply("uhi.plot_1d", uhi_plot_1d(axes, cur, args))
UhiPlot2d == Apply("uhi.plot_2d", uhi_plot_2d(axes, cur, args))
UhiPlotCutflow == Apply("uhi.plot_cutflow", uhi_plot_cutflow(axes, cur, args))

UhiPlotRatio ==
    /\ op = "none"
    /\ args.fn = "uhi.plot_ratio"
    /\ \E mags \in [1..MaxRatioBins -> SigMagnitudes] :
        LET r == uhi_plot_ratio(axes, fperr, args, mags) IN
        /\ out' = (IF r.out.status = "raise" THEN r.out ELSE Return(NoneV))
        /\ axes' = r.axes
        /\ fperr' = r.fperr
        /\ locals' = r.locals
    /\ op' = "uhi.plot_ratio"
    /\ before' = Snapshot
    /\ UNCHANGED <<cur, args, prop_cycle, hist_colors>>

(* Background(label, hist, stat_errs, syst_errs, color): a Background      *)
(* without a colour takes the next one of the iterator (line 131), after   *)
(* every check has passed.                                                 *)
ConstructWith(a) ==
    LET r == Background(a.label, a.hist, a.stat_errs, a.syst_errs)
        takes == r.status = "return" /\ IsNone(a.color)
    IN  /\ out' = r
        /\ locals' = (IF r.status = "raise" THEN NoneV
                      ELSE [color |-> IF takes THEN Str(NextColor(hist_colors)) ELSE a.color])
        /\ hist_colors' = (IF takes THEN Advance(hist_colors) ELSE hist_colors)
        /\ op' = "Background"
        /\ before' = Snapshot
Construct ==
    /\ op = "none"
    /\ args.fn = "Background"
    /\ ConstructWith(args)
    /\ UNCHANGED <<axes, cur, fperr, args, prop_cycle>>

Next == \/ PlotSignal \/ PlotData \/ Plot1d \/ Plot2d \/ PlotCutflow \/ PlotLimit
        \/ PlotBackgrounds \/ PlotRatio \/ Construct
        \/ UhiPlotData \/ UhiPlotSignal \/ UhiPlot1d \/ UhiPlot2d \/ UhiPlotCutflow
        \/ UhiPlotRatio
Spec == Init /\ [][Next]_vars

----------------------------------------------------------------------------
(* Properties of the histogram and limit routines (checked under Spec) *)
Fn == args.fn
Drawn(id) == axes[id].artists # before.axes[id].artists
Recorded(id) == axes[id].legend # before.axes[id].legend
Given(x) == ~IsNone(x) /\ ~IsStr(x)
OffLength(x, n) == Given(x) /\ Len(x.v) # n

BinnedRoutines == {"plot_backgrounds", "plot_signal", "plot_data", "plot_1d", "plot_2d",
                   "plot_cutflow", "plot_limit"}
\* some arrays of the call that must share a binning differ in length
LengthMismatch ==
    CASE Fn = "plot_signal" ->
            \/ Len(args.bins.v) # Len(args.hist) + 1
            \/ OffLength(args.stat_errs, Len(args.hist))
            \/ OffLength(args.syst_errs, Len(args.hist))
      [] Fn \in {"plot_data", "plot_1d"} ->
            \/ Len(args.bins.v) # Len(args.hist) + 1
            \/ OffLength(args.stat_errs, Len(args.hist))
      [] Fn = "plot_2d" ->
            \/ Len(args.xbins.v) # args.hist.shape[1] + 1
            \/ Len(args.ybins.v) # args.hist.shape[2] + 1
      [] Fn = "plot_cutflow" -> Len(args.labels) # Len(args.hist)
      [] Fn = "plot_limit" ->
            \/ Len(args.expected) # Len(args.x)
            \/ \E arr \in {args.minus_one_sigma, args.plus_one_sigma, args.minus_two_sigma,
                           args.plus_two_sigma, args.observed} : OffLength(arr, Len(args.x))
      [] Fn = "plot_backgrounds" ->
            \/ \E j, k \in 1..Len(TheList) : Len(TheList[j].hist) # Len(TheList[k].hist)
            \/ /\ ~IsNone(EffBins)
               /\ \E k \in 1..Len(TheList) : Len(TheList[k].hist) # Len(EffBins.v) - 1
            \/ /\ ~IsNone(EffBins)
               /\ OffLength(args.total_err, Len(EffBins.v) - 1)
            \/ \E k \in 1..Len(TheList) : OffLength(args.total_err, Len(TheList[k].hist))

\* another argument error is present besides the length mismatch
OtherArgumentError ==
    CASE Fn \in {"plot_signal", "plot_data", "plot_1d"} ->
            IsStr(args.stat_errs) /\ ~pois_or_sqrt(args.stat_errs.v)
      [] Fn = "plot_backgrounds" -> TheList = << >> \/ IsNone(EffBins)
      [] OTHER -> FALSE

(* C6: in plot_backgrounds, plot_signal, plot_data, plot_1d, plot_2d,      *)
(* plot_cutflow and plot_limit a length mismatch between arrays that must  *)
(* share a binning ends the call with BinningMismatchError, and then no    *)
(* artist has been drawn on any axes, no legend entry has been recorded    *)
(* and nothing is returned (calls whose arguments are invalid in another   *)
(* way as well are left aside).                                            *)
C6_MismatchReportedFirst ==
    (op \in BinnedRoutines /\ LengthMismatch /\ ~OtherArgumentError) =>
        /\ out.status = "raise"
        /\ out.exc = "BinningMismatchError"
        /\ \A id \in AxesIds : ~Drawn(id) /\ ~Recorded(id)

----------------------------------------------------------------------------
(* Properties of utils.significance, as plot_ratio calls it (SpecRatio) *)
SigCalled == RatioCalled /\ args.plottype = "significances"
NonNegative(x) == x.t = "rat" /\ x.n >= 0
NonPositive(x) == x.t = "rat" /\ x.n <= 0
\* s2 = data_errs^2 + bkg_errs^2 of bin i
ErrSq(i) == SqOf(At(args.data_errs, i)) + SqOf(At(args.bkg_errs, i))
DegenerateBin(i) == ErrSq(i) = 0 \/ At(args.bkg, i).v = 0 \/ At(args.data, i).v = 0

----------------------------------------------------------------------------
(* Properties of Spec: mode selectors                                      *)
ValidPlotTypes == {"diff", "raw", "significances"}
\* the call carries a mode selector that the routine does not know
Names(s, rules) == \E w \in rules : Contains(lower(s), w)
UnknownSelector ==
    CASE Fn = "Background" ->
            IsStr(args.stat_errs) /\ ~Names(args.stat_errs.v, {"pois", "sqrt", "ignore"})
      [] Fn \in {"plot_signal", "plot_data", "plot_1d"} ->
            IsStr(args.stat_errs) /\ ~Names(args.stat_errs.v, {"pois", "sqrt"})
      [] Fn = "plot_ratio" -> args.plottype \notin ValidPlotTypes
      [] OTHER -> FALSE

(* C12: a call of Background, plot_signal, plot_data or plot_1d whose       *)
(* stat_errs is a string naming no rule the routine knows, and a call of   *)
(* plot_ratio whose plottype is none of diff, raw and significances, ends  *)
(* with an exception, and no artist has been drawn on any axes.            *)
C12_UnknownSelectorRejected ==
    (op # "none" /\ UnknownSelector) =>
        /\ out.status = "raise"
        /\ \A id \in AxesIds : ~Drawn(id)
C12_Witness ==
    /\ op = "plot_signal"
    /\ args.stat_errs = Str("bogus")
    /\ Len(args.bins.v) = Len(args.hist) + 1
    /\ out.status = "raise"
    /\ out.exc = "TypeError"

----------------------------------------------------------------------------
(* Properties of Spec: histogram objects                                   *)
IsObj(x) == x.tag = "hist"
\* a histogram object with the three attributes of the protocol and k axes
HasAxes(x, k) == IsObj(x) /\ x.caps = FullCaps /\ x.naxes = k
Conforms(x) == IsObj(x) /\ x.caps = FullCaps
UhiOneD == {"uhi.plot_data", "uhi.plot_signal", "uhi.plot_1d", "uhi.plot_cutflow"}
\* some conforming histogram object of the call has an unexpected number of axes
WrongDimension ==
    CASE Fn = "Background" -> Conforms(args.hist) /\ args.hist.naxes # 1
      [] Fn \in {"uhi.plot_data", "uhi.plot_1d", "uhi.plot_cutflow"} ->
            Conforms(args.hist) /\ args.hist.naxes # 1
      [] Fn = "uhi.plot_signal" ->
            \/ Conforms(args.hist) /\ args.hist.naxes # 1
            \/ HasAxes(args.hist, 1) /\ Conforms(args.syst_errs) /\ args.syst_errs.naxes # 1
      [] Fn = "uhi.plot_ratio" ->
            \/ Conforms(args.data) /\ args.data.naxes # 1
            \/ HasAxes(args.data, 1) /\ Conforms(args.total_bkg) /\ args.total_bkg.naxes # 1
      [] Fn = "uhi.plot_2d" -> Conforms(args.hist) /\ args.hist.naxes # 2
      [] OTHER -> FALSE

(* C13: Background, uhi.plot_data, uhi.plot_signal (hist and syst_errs),    *)
(* uhi.plot_ratio (data and a histogram total_bkg), uhi.plot_1d and        *)
(* uhi.plot_cutflow raise DimensionError for a histogram object whose      *)
(* number of axes is not 1, and uhi.plot_2d for one whose number of axes   *)
(* is not 2.                                                               *)
C13_DimensionChecked ==
    (op # "none" /\ WrongDimension) => out.status = "raise" /\ out.exc = "DimensionError"

\* a histogram object of the call lacks one of axes, values and variances
Lacking(x) == IsObj(x) /\ x.caps # FullCaps
LacksCapability ==
    CASE Fn \in {"Background", "uhi.plot_2d"} \cup UhiOneD -> Lacking(args.hist)
      [] Fn = "uhi.plot_ratio" ->
            Lacking(args.data) \/ (HasAxes(args.data, 1) /\ Lacking(args.total_bkg))
      [] OTHER -> FALSE

(* C14: Background, uhi.plot_data, uhi.plot_signal, uhi.plot_ratio,         *)
(* uhi.plot_1d, uhi.plot_2d and uhi.plot_cutflow raise                     *)
(* ViolatesPlottableHistogramError for a histogram object that lacks one   *)
(* of the attributes axes, values and variances, whichever one it is.      *)
C14_ProtocolChecked ==
    (op # "none" /\ LacksCapability) =>
        out.status = "raise" /\ out.exc = "ViolatesPlottableHistogramError"

\* the object with variances of zero, and with variances equal to its contents
ZeroVariances(h) == [h EXCEPT !.variances = Arr(zeros_like(h.values))]
PoissonVariances(h) == [h EXCEPT !.variances = Arr(h.values)]
\* a one-dimensional histogram object whose variances() is None
Unknown(h) == HasAxes(h, 1) /\ IsNone(h.variances)
\* uhi.plot_ratio ended as it ends on the data with variances equal to the contents
AsOnPoisson ==
    \E mags \in [1..MaxRatioBins -> SigMagnitudes] :
        LET r == uhi_plot_ratio(before.axes, before.fperr,
                                [args EXCEPT !.data = PoissonVariances(@)], mags)
        IN  r.out.status = out.status /\ r.axes = axes /\ r.locals = locals

(* C15: a histogram object without variances is not treated as one with   *)
(* known uncertainty.  A Background built from it (stat_errs not a string) *)
(* differs from the Background built from the same object with variances   *)
(* of zero; uhi.plot_data (variances not ignored) does not end as it does  *)
(* on the object with variances of zero; uhi.plot_ratio does not draw the  *)
(* significances it draws for variances equal to the contents.             *)
C15_AbsentVariancesUnknown ==
    /\ (op = "Background" /\ Unknown(args.hist) /\ ~IsStr(args.stat_errs)
            /\ out.status = "return") =>
          out # Background(args.label, ZeroVariances(args.hist), args.stat_errs,
                           args.syst_errs)
    /\ (op = "uhi.plot_data" /\ Unknown(args.hist) /\ ~args.ignore_variances
            /\ out.status = "return") =>
          CallResult(out, axes) # uhi_plot_data(before.axes, cur,
                                                [args EXCEPT !.hist = ZeroVariances(@)])
    /\ (op = "uhi.plot_ratio" /\ Unknown(args.data) /\ args.plottype = "significances"
            /\ out.status = "return") => ~AsOnPoisson

----------------------------------------------------------------------------
(* Properties of Spec: the Background constructor                          *)
Constructed == op = "Background" /\ (args.hist.tag = "array" \/ HasAxes(args.hist, 1))
Contents == IF IsObj(args.hist) THEN args.hist.values ELSE args.hist.v
AllZeros(n) == [i \in 1..n |-> Flt(0)]
Roots(a) == [i \in 1..Len(a) |-> np_sqrt(a[i])]
\* what the constructor stores for statistical-error argument s and contents h
StatRule(s, h) ==
    IF IsNone(s) THEN AllZeros(Len(h))
    ELSE IF ~IsStr(s) THEN s.v
    ELSE IF Names(s.v, {"pois", "sqrt"}) THEN Roots(h)
    ELSE AllZeros(Len(h))
(* the three properties of the constructor, for statistical-error argument *)
(* s (a stat_errs string that names no rule is rejected first)             *)
ConstructorContract(s) ==
    /\ out.status = "return" =>
        /\ Len(out.value.hist) = Len(out.value.stat_errs)
        /\ Len(out.value.hist) = Len(out.value.syst_errs)
        /\ out.value.stat_errs = StatRule(s, Contents)
        /\ IsNone(args.syst_errs) => out.value.syst_errs = AllZeros(Len(Contents))
    /\ (OffLength(s, Len(Contents)) \/ OffLength(args.syst_errs, Len(Contents))) =>
            out.status = "raise" /\ (UnknownSelector \/ out.exc = "BinningMismatchError")
\* the statistical errors in effect: those of a histogram object replace an array
EffectiveStat ==
    IF IsObj(args.hist) /\ ~IsStr(args.stat_errs)
        THEN IF IsNone(args.hist.variances) THEN NoneV ELSE Arr(Roots(args.hist.variances.v))
        ELSE args.stat_errs

(* C16 as stated: every Background the constructor returns has hist,        *)
(* stat_errs and syst_errs of one length; stat_errs is sqrt(hist) for a    *)
(* Poisson/sqrt string, zeros when absent or "ignore", else the supplied   *)
(* array; syst_errs is zeros when absent; a supplied stat_errs or          *)
(* syst_errs of another length than hist raises BinningMismatchError.      *)
C16_SuppliedStatKept == Constructed => ConstructorContract(args.stat_errs)

(* C16: the same, where for a Background built from a histogram object a   *)
(* stat_errs that is no string is ignored and replaced by the square root  *)
(* of the object's variances (absent when variances() is None).            *)
C16_LengthsAndDefaults == Constructed => ConstructorContract(EffectiveStat)
C16_Witness ==
    /\ Constructed
    /\ IsObj(args.hist)
    /\ Given(args.stat_errs)
    /\ Len(args.stat_errs.v) # Len(Contents)
    /\ ~IsNone(args.hist.variances)
    /\ out.status = "return"
    /\ out.value.stat_errs = Roots(args.hist.variances.v)
    /\ SumNonZero(out.value.stat_errs)

----------------------------------------------------------------------------
(* Properties of Spec: frame conditions                                    *)
\* a bin of the ratio was flagged and blanked in place
Blanked == locals # NoneV /\ "drawn" \in DOMAIN locals /\ locals.drawn # locals.ratio

----------------------------------------------------------------------------
(* Properties of Spec: the argument order of plot_backgrounds              *)
Exchanged(a) == [a EXCEPT !.backgrounds = a.bins, !.bins = a.backgrounds]
\* the call was made with both positional arguments, in either order
BothGiven == op = "plot_backgrounds" /\ ~IsNone(before.args.bins)
SameOutcomeExchanged ==
    LET r == plot_backgrounds(before.axes, cur, Exchanged(before.args))
    IN  r.out = out /\ r.axes = axes

(* C18: plot_backgrounds(bins, backgrounds) and plot_backgrounds(           *)
(* backgrounds, bins) have the same outcome, the same returned totals or   *)
(* early return or the same error, for every list of Backgrounds, the      *)
(* empty one included, and every bin-edge array.                           *)
C18_ExchangeSameOutcome == BothGiven => SameOutcomeExchanged

----------------------------------------------------------------------------
(* Properties of Spec: the ax argument                                     *)
TakesAx == {"plot_backgrounds", "plot_signal", "plot_data", "plot_1d"}

(* C19: when plot_backgrounds, plot_signal, plot_data or plot_1d is called  *)
(* with an explicit ax, every other axes, the current axes included when   *)
(* it is not ax, is left as it was: it receives no artist and no legend    *)
(* bookkeeping.                                                            *)
C19_OnlyAxTouched ==
    (op \in TakesAx /\ ~IsNone(args.ax)) =>
        \A id \in AxesIds \ {args.ax.v} : ~Drawn(id) /\ ~Recorded(id)

----------------------------------------------------------------------------
(* Specification SpecColor: calls of set_color_cycle and constructions of  *)
(* Backgrounds without a colour, in any order.                             *)
MaxLines == 9     \* largest n passed to set_color_cycle
\* one n below 2, one up to 6, one up to 8, one above
LineCounts == {1, 6, 7, MaxLines}
MaxTaken == 3     \* most colours taken from one iterator

SetColorCycle ==
    \E pal \in {NoneV} \cup {Str(s) : s \in PalNames}, n \in LineCounts :
        LET r == set_color_cycle(prop_cycle, hist_colors, pal, n) IN
        /\ args' = [fn |-> "set_color_cycle", pal |-> pal, n |-> n]
        /\ out' = r.out
        /\ prop_cycle' = r.prop_cycle
        /\ hist_colors' = r.hist_colors
        /\ locals' = NoneV
        /\ op' = "set_color_cycle"
        /\ before' = Snapshot
        /\ UNCHANGED <<axes, cur, fperr>>
TakeColor ==
    /\ hist_colors.taken < MaxTaken
    /\ \E h \in {Arr(FlatArr(n, 1)) : n \in 1..MaxBins} :
        LET a == [fn |-> "Background", label |-> "A", hist |-> h, stat_errs |-> NoneV,
                  syst_errs |-> NoneV, color |-> NoneV]
        IN  args' = a /\ ConstructWith(a)
    /\ UNCHANGED <<axes, cur, fperr, prop_cycle>>

InitColor ==
    /\ args = [fn |-> "none"]
    /\ InitCommon
NextColor_ == SetColorCycle \/ TakeColor
SpecColor == InitColor /\ [][NextColor_]_vars

(* C20: set_color_cycle with pal None, "ATLAS" or a name that starts with   *)
(* "PETROFF", in any letter case, returns, sets the colour cycle to the    *)
(* Petroff palette of 6 colours when n <= 6, of 8 when 6 < n <= 8 and of   *)
(* 10 otherwise (n below 2 counting as 2), and restarts the iterator of    *)
(* the Backgrounds' colours at the first colour of that palette.           *)
DefaultPalette ==
    IsNone(args.pal) \/ str_upper(args.pal.v) \in {"ATLAS", "PETROFF", "PETROFF10"}
PaletteSize(n) == IF n <= 6 THEN 6 ELSE IF n <= 8 THEN 8 ELSE 10
C20_DefaultPaletteReset ==
    (op = "set_color_cycle" /\ DefaultPalette) =>
        /\ out.status = "return"
        /\ prop_cycle \in {Petroff6, Petroff8, Petroff10}
        /\ Len(prop_cycle) = PaletteSize(IF args.n < 2 THEN 2 ELSE args.n)
        /\ hist_colors = [colors |-> prop_cycle, taken |-> 0]

----------------------------------------------------------------------------
(* Properties of Spec: bands attached to a signal's legend entry           *)
\* the bands registered under label in ax._ampllegend.bands
BandsUnder(A, id, label) == SelectSeq(A[id].legend.bands, LAMBDA b : b.label = label)
\* how many bands the last call registered under its label on its axes
NewlyAttached ==
    LET id == gca(args.ax, cur) IN
    Len(BandsUnder(axes, id, args.label)) - Len(BandsUnder(before.axes, id, args.label))
\* how many bands plot_signal draws: one per error argument that is given
BandsOfCall ==
    (IF IsNone(args.stat_errs) THEN 0 ELSE 1) + (IF IsNone(args.syst_errs) THEN 0 ELSE 1)

(* C23: a plot_signal call that returns attaches, with attach_bands=True,   *)
(* every band it draws (the stat band when stat_errs is given, the         *)
(* stat+syst band when syst_errs is given) to the bands of its label, and  *)
(* attaches none with attach_bands=False.                                  *)
C23_EveryBandAttached ==
    (op = "plot_signal" /\ out.status = "return") =>
        NewlyAttached = (IF args.attach_bands THEN BandsOfCall ELSE 0)

----------------------------------------------------------------------------
(* Properties of Spec: the default maximum ratio of uhi.plot_ratio         *)
\* the maximum ratio the docstring of uhi.plot_ratio gives for each plottype
DocumentedMaxRatio(plottype) == CASE plottype = "diff" -> Rat(2, 10)
                                  [] plottype = "raw" -> Rat(12, 10)
                                  [] plottype = "significances" -> Rat(3, 1)
\* the call got as far as fixing the y range of the ratio axes
LimitsKnown == locals # NoneV /\ "max_ratio" \in DOMAIN locals

(* C24: uhi.plot_ratio called without max_ratio uses a maximum ratio of    *)
(* 0.2 for plottype "diff", 1.2 for "raw" and 3 for "significances" (the   *)
(* upper y limit of the ratio axes is that value, or that value grown by   *)
(* the 10% margin).                                                        *)
C24_DefaultMaxRatio ==
    (op = "uhi.plot_ratio" /\ IsNone(args.max_ratio) /\ LimitsKnown) =>
        /\ args.plottype \in ValidPlotTypes
        /\ locals.max_ratio \in {DocumentedMaxRatio(args.plottype),
                                 RatMul(DocumentedMaxRatio(args.plottype), TenPercent)}
        /\ axes[args.ratio_ax].ylim[2] = locals.max_ratio

----------------------------------------------------------------------------
(* Properties of Spec: the argument checks of plot_limit                   *)
LimitCalled == op = "plot_limit"
\* expected, a sigma-band edge or observed has another length than x
LimitLengthsDiffer ==
    \/ Len(args.expected) # Len(args.x)
    \/ \E arr \in {args.minus_one_sigma, args.plus_one_sigma, args.minus_two_sigma,
                   args.plus_two_sigma, args.observed} : OffLength(arr, Len(args.x))
\* exactly one of a pair of arguments that belong together is given
Unpaired ==
    \/ IsNone(args.minus_one_sigma) # IsNone(args.plus_one_sigma)
    \/ IsNone(args.minus_two_sigma) # IsNone(args.plus_two_sigma)
    \/ IsNone(args.observed) # IsNone(args.observed_label)

(* C26: plot_limit raises BinningMismatchError when expected, a sigma-band *)
(* edge or observed has a length different from x, otherwise ValueError    *)
(* when exactly one argument of a pair is given (so a length mismatch is   *)
(* reported in preference to an unpaired argument), otherwise it returns;  *)
(* whenever it raises, no band or line has been drawn on any axes.         *)
C26_LimitValidatedFirst ==
    LimitCalled =>
        /\ LimitLengthsDiffer =>
               out.status = "raise" /\ out.exc = "BinningMismatchError"
        /\ (~LimitLengthsDiffer /\ Unpaired) =>
               out.status = "raise" /\ out.exc = "ValueError"
        /\ (~LimitLengthsDiffer /\ ~Unpaired) => out.status = "return"
        /\ out.status = "raise" => \A id \in AxesIds : ~Drawn(id)
\* a call with both a length mismatch and an unpaired argument
C26_Witness ==
    /\ LimitCalled /\ LimitLengthsDiffer /\ Unpaired
    /\ out.status = "raise" /\ out.exc = "BinningMismatchError"
    /\ \A id \in AxesIds : ~Drawn(id)

----------------------------------------------------------------------------
(* Specification SpecLegend: plot_data, plot_backgrounds, plot_signal,     *)
(* plot_1d, plot_band, register_band and matplotlib's own ax.plot called   *)
(* in any order on the current axes, and then draw_legend.                 *)
MaxArtists == 3   \* plotting goes on while the axes holds fewer artists than this
\* labels of artists drawn directly with matplotlib: three and two characters long
DirectLabels == {"fit", "Z1"}
BandLabels == DirectLabels \cup {"S"}
OneBin == Arr(Edges(1))

\* plotting goes on until the legend is drawn or the axes is full
CanPlot == op # "draw_legend" /\ Len(axes[cur].artists) < MaxArtists
\* op, args, out and the snapshot of a call a that ended as r
Called_(a, r) ==
    /\ args' = a
    /\ out' = r.out
    /\ axes' = r.axes
    /\ op' = a.fn
    /\ locals' = NoneV
    /\ before' = Snapshot
    /\ UNCHANGED <<cur, fperr, prop_cycle, hist_colors>>

LegendPlotData ==
    /\ CanPlot
    /\ \E s \in {NoneV, Str("sqrt")} :
            LET a == [fn |-> "plot_data", label |-> "Data", bins |-> OneBin,
                      hist |-> FlatArr(1, 1), stat_errs |-> s, ax |-> NoneV]
            IN  Called_(a, plot_data(axes, cur, a))
LegendPlotBackgrounds ==
    /\ CanPlot
    /\ \E k \in {1, MaxBkgs}, s \in {NoneV, Str("sqrt")}, y \in {0, MaxErr} :
            LET a == BkgCall(BkgList([i \in 1..k |->
                             NewBackground(i, "array", 1, [c |-> 1, stat |-> s, syst |-> y])]),
                             OneBin, NoneV)
                r == plot_backgrounds(axes, cur, a)
            IN  Called_(a, [out |-> r.out, axes |-> r.axes])
LegendPlotSignal ==
    /\ CanPlot
    /\ \E s \in {NoneV, Str("sqrt")}, y \in {NoneV, Arr(FlatArr(1, 1))}, t \in BOOLEAN :
            LET a == [fn |-> "plot_signal", label |-> "S", bins |-> OneBin,
                      hist |-> FlatArr(1, 1), stat_errs |-> s, syst_errs |-> y,
                      attach_bands |-> t, ax |-> NoneV]
            IN  Called_(a, plot_signal(axes, cur, a))
LegendPlot1d ==
    /\ CanPlot
    /\ \E s \in {NoneV, Str("sqrt")}, t \in BOOLEAN :
            LET a == [fn |-> "plot_1d", label |-> "H", bins |-> OneBin,
                      hist |-> FlatArr(1, 1), stat_errs |-> s, attach_bands |-> t, ax |-> NoneV]
            IN  Called_(a, plot_1d(axes, cur, a))
\* matplotlib's ax.plot(x, y, label=label) on the current axes
AxPlot ==
    /\ CanPlot
    /\ \E l \in BandLabels :
            Called_([fn |-> "ax.plot", label |-> l],
                    CallResult(Return(NoneV), AddArtist(axes, cur, Artist("line", Str(l)))))
PlotBand ==
    /\ CanPlot
    /\ \E l \in {NoneV} \cup {Str(x) : x \in BandLabels} :
            LET a == [fn |-> "plot_band", bins |-> OneBin, low |-> FlatArr(1, 0),
                      high |-> FlatArr(1, 1), label |-> l, ax |-> NoneV]
            IN  Called_(a, CallResult(Return(NoneV),
                                      plot_band(axes, cur, a.bins.v, 1, 1, l, NoneV).axes))
\* ax.fill_between(...) without a label, then register_band(label, artist)
RegisterBand ==
    /\ CanPlot
    /\ \E l \in BandLabels :
            LET art == Artist("fill_between", NoneV)
                a == [fn |-> "register_band", label |-> l, artist |-> art, ax |-> NoneV]
            IN  Called_(a, CallResult(Return(NoneV),
                                      register_band(AddArtist(axes, cur, art), cur, l, art, NoneV)))
DrawLegend ==
    /\ op # "draw_legend"
    /\ LET a == [fn |-> "draw_legend", ax |-> NoneV]
           r == draw_legend(axes, cur, a)
       IN  /\ args' = a
           /\ out' = r.out
           /\ axes' = r.axes
    /\ op' = "draw_legend"
    /\ locals' = NoneV
    /\ before' = Snapshot
    /\ UNCHANGED <<cur, fperr, prop_cycle, hist_colors>>

InitLegend ==
    /\ args = [fn |-> "none"]
    /\ InitCommon
NextLegend == \/ LegendPlotData \/ LegendPlotBackgrounds \/ LegendPlotSignal
              \/ LegendPlot1d \/ AxPlot \/ PlotBand \/ RegisterBand \/ DrawLegend
SpecLegend == InitLegend /\ [][NextLegend]_vars

----------------------------------------------------------------------------
(* Properties of SpecLegend *)
LegendDrawn == op = "draw_legend"
TheLegend == axes[cur].legend_
UncertaintyLabels == {"Stat. Uncertainty", "Total Uncertainty", "Uncertainty"}
IsUncertainty(e) == e.label \in UncertaintyLabels
IsData(e) == e.handle.kind = "data_hists"
\* labels of the artists on the current axes that the package does not manage
ExtraLabels ==
    {a.label.v : a \in {x \in {axes[cur].artists[i] : i \in 1..Len(axes[cur].artists)} :
                            ~IsNone(x.label)}}
        \ ampl_labels(axes[cur].legend)
\* only routines of the package have drawn on the current axes, at least one of them
HistogramsOnly == axes[cur].decorated /\ ExtraLabels = {}

(* C21: in the legend draw_legend builds after plot_data, plot_backgrounds, *)
(* plot_signal and plot_1d calls, the data entries come first and the      *)
(* uncertainty entries come last: no entry that is not an uncertainty      *)
(* follows an uncertainty entry, and no data entry follows another entry.  *)
C21_DataFirstUncertaintiesLast ==
    (LegendDrawn /\ HistogramsOnly) =>
        /\ out.status = "return"
        /\ \A i, j \in 1..Len(TheLegend) :
               i < j => /\ IsUncertainty(TheLegend[i]) => IsUncertainty(TheLegend[j])
                        /\ IsData(TheLegend[j]) => IsData(TheLegend[i])

\* the positions of label in the legend
EntriesOf(label) == {i \in 1..Len(TheLegend) : TheLegend[i].label = label}
\* the artists on the current axes that carry label
ArtistsOf(label) ==
    {x \in {axes[cur].artists[i] : i \in 1..Len(axes[cur].artists)} : x.label = Str(label)}
\* the bands registered under label on the current axes, in registration order
RegisteredBands(label) ==
    LET regs == SelectSeq(axes[cur].legend.bands, LAMBDA b : b.label = label)
    IN  [i \in 1..Len(regs) |-> regs[i].artist]
IsManaged(e) == e.handle.kind \in {"data_hists", "fill_hists", "line_hists", "Rectangle"}

(* C27: draw_legend on an axes the package has drawn on returns, whatever   *)
(* artists were added directly through matplotlib; each label of such an   *)
(* artist that the package does not manage appears exactly once in the     *)
(* legend, with an artist of that label as handle and the bands registered *)
(* under that label attached, after every package-managed entry; and no    *)
(* label appears twice in the legend.                                      *)
C27_ExtrasKeptOnce ==
    (LegendDrawn /\ axes[cur].decorated) =>
        /\ out.status = "return"
        /\ \A l \in ExtraLabels :
               \E i \in 1..Len(TheLegend) :
                   /\ EntriesOf(l) = {i}
                   /\ TheLegend[i].handle \in ArtistsOf(l)
                   /\ TheLegend[i].bands = RegisteredBands(l)
                   /\ \A j \in 1..Len(TheLegend) : IsManaged(TheLegend[j]) => j < i
        /\ \A i, j \in 1..Len(TheLegend) : TheLegend[i].label = TheLegend[j].label => i = j

----------------------------------------------------------------------------
(* Specification SpecAxes: one ratio_axes call, then set_xlabel calls with *)
(* any axes as ax or as the current axes (matplotlib.pyplot.sca).          *)
MaxExtra == 3     \* largest extra_axes
XLabels == {"m"}

RatioAxes ==
    /\ op = "none"
    /\ \E e \in {NoneV} \cup {[tag |-> "int", v |-> k] : k \in 0..MaxExtra} :
        LET r == ratio_axes(axes, e) IN
        /\ args' = [fn |-> "ratio_axes", extra_axes |-> e]
        /\ out' = r.out
        /\ axes' = r.axes
        /\ cur' = r.cur
    /\ op' = "ratio_axes"
    /\ locals' = NoneV
    /\ before' = Snapshot
    /\ UNCHANGED <<fperr, prop_cycle, hist_colors>>
\* matplotlib.pyplot.sca(ax)
Sca ==
    /\ op # "none"
    /\ \E id \in DOMAIN axes :
        /\ id # cur
        /\ cur' = id
        /\ args' = [fn |-> "sca", ax |-> AxRef(id)]
    /\ op' = "sca"
    /\ out' = Return(NoneV)
    /\ locals' = NoneV
    /\ before' = Snapshot
    /\ UNCHANGED <<axes, fperr, prop_cycle, hist_colors>>
SetXlabel ==
    /\ op # "none"
    /\ \E l \in XLabels, x \in {NoneV} \cup {AxRef(id) : id \in DOMAIN axes} :
        LET a == [fn |-> "set_xlabel", label |-> l, ax |-> x]
            r == set_xlabel(axes, cur, a)
        IN  /\ args' = a
            /\ out' = r.out
            /\ axes' = r.axes
    /\ op' = "set_xlabel"
    /\ locals' = NoneV
    /\ before' = Snapshot
    /\ UNCHANGED <<cur, fperr, prop_cycle, hist_colors>>

InitAxes ==
    /\ args = [fn |-> "none"]
    /\ InitCommon
NextAxes == RatioAxes \/ Sca \/ SetXlabel
SpecAxes == InitAxes /\ [][NextAxes]_vars

(* Properties of SpecAxes *)
FigureMade == MainId \in DOMAIN axes
RatioAxesMade == DOMAIN axes \ (AxesIds \cup {MainId})
TheFigure == {MainId} \cup RatioAxesMade
LowestRatioAxes == RatioIds[Cardinality(RatioAxesMade)]

(* C22: after ratio_axes with extra_axes omitted or at least 1, every      *)
(* ratio axes records the main axes as its main_ax and the main axes       *)
(* records the last ratio axes as its low_ax; and a set_xlabel call with   *)
(* the main axes, with no ax while the main axes is current, or with any   *)
(* ratio axes puts the label on the lowest ratio axes and leaves the x     *)
(* label of every other axes of the figure as it was.                      *)
C22_LabelOnLowestAxes ==
    (FigureMade /\ RatioAxesMade # {}) =>
        /\ \A id \in RatioAxesMade : axes[id].info.main_ax = AxRef(MainId)
        /\ axes[MainId].info.low_ax = AxRef(LowestRatioAxes)
        /\ (op = "set_xlabel" /\ gca(args.ax, cur) \in TheFigure) =>
               /\ axes[LowestRatioAxes].xlabel = Str(args.label)
               /\ \A id \in TheFigure \ {LowestRatioAxes} :
                      axes[id].xlabel = before.axes[id].xlabel

----------------------------------------------------------------------------
(* Specification SpecStats: plot_pulls and plot_impacts called in any      *)
(* order and then draw_pull_impact_legend, each on the current axes, on    *)
(* the first axes or on a twin axes.                                       *)
MaxTwins == 2     \* most plot_impacts calls
MaxPulls == 1     \* most plot_pulls calls on one axes
\* ax is omitted, or the first axes or a twin
AxChoices == {NoneV} \cup {AxRef(id) : id \in DOMAIN axes \ {"ax2"}}
PullsDrawnOn(id) ==
    Len(SelectSeq(axes[id].artists, LAMBDA x : x.kind = "errorbar"))
LegendPending == op # "draw_pull_impact_legend"

PlotPulls ==
    /\ LegendPending
    /\ \E x \in AxChoices :
        LET a == [fn |-> "plot_pulls", data |-> "frame", ax |-> x]
            r == plot_pulls(axes, cur, a)
        IN  /\ PullsDrawnOn(gca(x, cur)) < MaxPulls
            /\ args' = a
            /\ out' = r.out
            /\ axes' = r.axes
    /\ op' = "plot_pulls"
    /\ locals' = NoneV
    /\ before' = Snapshot
    /\ UNCHANGED <<cur, fperr, prop_cycle, hist_colors>>
PlotImpacts ==
    /\ LegendPending
    /\ Cardinality(DOMAIN axes \ AxesIds) < MaxTwins
    /\ \E x \in AxChoices, p \in BOOLEAN :
        LET a == [fn |-> "plot_impacts", data |-> "frame", draw_prefit |-> p,
                  up_color |-> "paper:blue", down_color |-> "paper:red", ax |-> x]
            r == plot_impacts(axes, cur, a)
        IN  /\ args' = a
            /\ out' = r.out
            /\ axes' = r.axes
            /\ cur' = r.cur
    /\ op' = "plot_impacts"
    /\ locals' = NoneV
    /\ before' = Snapshot
    /\ UNCHANGED <<fperr, prop_cycle, hist_colors>>
DrawPullImpactLegend ==
    /\ LegendPending
    /\ \E x \in AxChoices :
        LET a == [fn |-> "draw_pull_impact_legend", ax |-> x]
            r == draw_pull_impact_legend(axes, cur, a)
        IN  /\ args' = a
            /\ out' = r.out
            /\ axes' = r.axes
            /\ locals' = r.locals
    /\ op' = "draw_pull_impact_legend"
    /\ before' = Snapshot
    /\ UNCHANGED <<cur, fperr, prop_cycle, hist_colors>>

InitStats ==
    /\ args = [fn |-> "none"]
    /\ InitCommon
NextStats == PlotPulls \/ PlotImpacts \/ DrawPullImpactLegend
SpecStats == InitStats /\ [][NextStats]_vars

(* Properties of SpecStats.  What was plotted is read from the artists on  *)
(* the axes and from matplotlib's twin relation.                           *)
PullLegendDrawn == op = "draw_pull_impact_legend"
GivenAxes == gca(args.ax, cur)
HasPullPlot(id) == \E i \in 1..Len(axes[id].artists) : axes[id].artists[i].kind = "errorbar"
IsTwin(id) == ~IsNone(axes[id].twin_of)
TwinsOn(id) == {t \in DOMAIN axes : IsTwin(t) /\ axes[t].twin_of.v = id}
HasImpactPlot(id) == TwinsOn(id) # {}
\* the twin the latest plot_impacts on id has made
LatestTwinOn(id) ==
    TwinIds[CHOOSE i \in 1..Len(TwinIds) :
                /\ TwinIds[i] \in TwinsOn(id)
                /\ \A j \in 1..Len(TwinIds) : TwinIds[j] \in TwinsOn(id) => j <= i]
BarsOn(id) ==
    {axes[id].artists[i].of :
        i \in {k \in 1..Len(axes[id].artists) : axes[id].artists[k].kind = "barh"}}
LatestHadPrefit(id) == "impact_prefit_up" \in BarsOn(LatestTwinOn(id))
Hosts(id) == HasPullPlot(id) \/ HasImpactPlot(id)
\* the labels the legend of pull axes id should have
LabelsFor(id) ==
    (IF HasPullPlot(id) THEN {"Pulls"} ELSE {})
        \cup (IF HasImpactPlot(id) THEN {"Postfit Up", "Postfit Down"} ELSE {})
        \cup (IF HasImpactPlot(id) /\ LatestHadPrefit(id)
              THEN {"Prefit Up", "Prefit Down"} ELSE {})
\* the labels of the legend the call has drawn, the empty spacer label left out
LabelsDrawn ==
    LET l == axes[locals.legend_on].legend_
    IN  {l[i].label : i \in 1..Len(l)} \ {""}
NoLegendDrawn == \A id \in DOMAIN axes : axes[id].legend_ = before.axes[id].legend_

(* C25: the legend draw_pull_impact_legend draws for a pull axes has       *)
(* "Pulls" iff plot_pulls was called on the axes, "Postfit Up"/"Postfit    *)
(* Down" iff plot_impacts was, "Prefit Up"/"Prefit Down" iff the latest    *)
(* plot_impacts on it drew the prefit bars; passing an impact (twin) axes  *)
(* gives the legend of the axes it is a twin of; and an axes with neither  *)
(* plot that is no twin raises IncorrectAxesError and gets no legend.      *)
C25_LegendAsPlotted ==
    PullLegendDrawn =>
        IF IsTwin(GivenAxes)
            THEN out.status = "return" /\ LabelsDrawn = LabelsFor(axes[GivenAxes].twin_of.v)
        ELSE IF Hosts(GivenAxes)
            THEN out.status = "return" /\ LabelsDrawn = LabelsFor(GivenAxes)
        ELSE out.status = "raise" /\ out.exc = "IncorrectAxesError" /\ NoLegendDrawn

====
